---- MODULE Spec2Model ----
(***************************************************************************)
(* Manual invoice entry: the line-items table (LineItemsTable.tsx) and the *)
(* manual invoice form (ManualInvoiceForm.tsx).                            *)
(*                                                                         *)
(* Text is a sequence of one-character strings, so that trim, parseFloat   *)
(* and Number.prototype.toString are computed and not assumed.  Numbers    *)
(* are exact decimals held as integers in thousandths (1.5 is 1500).       *)
(***************************************************************************)
EXTENDS Integers, Sequences, FiniteSets, TLC

VARIABLES
    \* LineItemsTable and the form's line items
    items,                  \* ManualInvoiceForm: useState<LineItem[]> (the table's items prop)
    rawItems,               \* LineItemsTable: useState<RawItem[]>
    lastItemsRef,           \* LineItemsTable: useRef<LineItem[]>
    totals,                 \* ManualInvoiceForm: useMemo(..., [items]), with the items it was computed for
    \* ManualInvoiceForm: fields
    values,                 \* sellerName .. remarks: one useState per field
    errors,                 \* useState<FormErrors>
    touchedFields,          \* useState<Record<string, boolean>>
    fieldValidationStatus,  \* useState<Record<string, ValidationStatus>>, by backend name
    validationTimers,       \* useRef: per backend name, the values captured by its live timers
    requests,               \* /validate_field requests in flight, in the order issued
    \* ManualInvoiceForm: submission
    isSubmitting,
    isGeneratingPdf,
    submitError,
    pending,                \* the suspended handleSubmit: where it awaits, and what it closed over
    delivered,              \* the argument of the attempt's onValidated call, if any
    attempt,                \* history of the current attempt: calls issued, responses received
    \* history per backend field
    overlap,                \* a timer was armed while a request of the field was in flight
    lastWrite,              \* the handler that last wrote the field's status or error
    \* FileDropzone
    isDragging,             \* useState(false)
    calls,                  \* the calls made to the onError and onFileSelect props, in order
    handled,                \* what the last drop or selection gave to handleFile, if anything
    fileEvents,             \* drops and selections so far
    \* BusinessLookupBulkPage
    page,                   \* fileError, error, loading, results; the lookupCsv calls made and awaited
    \* the legacy invoice form (script.js)
    legacy,                 \* isSubmitting, shouldSubmit, the suspended listener, native submissions
    \* ManualInvoiceForm: lifetime
    mounted,                \* the form is mounted: its cleanup effect has not run
    \* counters that bound the run
    ops,                    \* edits: field changes, line-item operations, parent replacements
    blurs,                  \* field blurs
    submits                 \* submit clicks

lineVars == <<items, rawItems, lastItemsRef, totals>>

fieldVars == <<values, touchedFields, fieldValidationStatus, validationTimers, requests>>

submitVars == <<isSubmitting, isGeneratingPdf, submitError, pending, delivered, attempt>>

historyVars == <<overlap, lastWrite>>

dropVars == <<isDragging, calls, handled, fileEvents>>

pageVars == <<page, legacy>>

vars ==
    <<lineVars, fieldVars, errors, submitVars, historyVars, dropVars, pageVars, mounted, ops, blurs, submits>>

----------------------------------------------------------------------------
(* Bounds of the model *)

MaxRows == 2
MaxLineOps == 3
MaxEdits == 1
MaxBlurs == 2
MaxInflight == 2
MaxSubmits == 2

MaxLateEdits == 1

MaxLateBlurs == 1

MaxLateInflight == 1

MaxTotalOps == 5

MaxFileEvents == 2

MaxLegacyEvents == 3

----------------------------------------------------------------------------
(* Text *)

Undefined == "undefined"

Digits == <<"0", "1", "2", "3", "4", "5", "6", "7", "8", "9">>

IsDigit(c) == \E i \in 1..10 : Digits[i] = c

DigitVal(c) == (CHOOSE i \in 1..10 : Digits[i] = c) - 1

IsSpace(c) == c = " "

RECURSIVE TrimStart(_)
TrimStart(s) ==
    IF s # <<>> /\ IsSpace(Head(s)) THEN TrimStart(Tail(s)) ELSE s

RECURSIVE TrimEnd(_)
TrimEnd(s) ==
    IF s # <<>> /\ IsSpace(s[Len(s)]) THEN TrimEnd(SubSeq(s, 1, Len(s) - 1)) ELSE s

Trim(s) == TrimEnd(TrimStart(s))

----------------------------------------------------------------------------
(* Numbers: thousandths *)

Scale == 10 * 10 * 10

\* The longest prefix of s made of decimal digits.
RECURSIVE DigitPrefix(_)
DigitPrefix(s) ==
    IF s # <<>> /\ IsDigit(Head(s)) THEN <<Head(s)>> \o DigitPrefix(Tail(s)) ELSE <<>>

RECURSIVE DigitsValue(_)
DigitsValue(ds) ==
    IF ds = <<>> THEN 0 ELSE 10 * DigitsValue(SubSeq(ds, 1, Len(ds) - 1)) + DigitVal(ds[Len(ds)])

\* The fraction digits fs as thousandths (digits past the third are dropped).
FractionValue(fs) ==
    LET d(i) == IF i <= Len(fs) THEN DigitVal(fs[i]) ELSE 0
    IN  100 * d(1) + 10 * d(2) + d(3)

\* parseFloat: leading white space, an optional sign, digits, an optional
\* fraction; what follows the number is ignored; no digit at all is NaN.
ParseFloat(s) ==
    LET t    == TrimStart(s)
        neg  == t # <<>> /\ Head(t) = "-"
        sgn  == t # <<>> /\ Head(t) \in {"-", "+"}
        u    == IF sgn THEN Tail(t) ELSE t
        ip   == DigitPrefix(u)
        r    == SubSeq(u, Len(ip) + 1, Len(u))
        dot  == r # <<>> /\ Head(r) = "."
        fp   == IF dot THEN DigitPrefix(Tail(r)) ELSE <<>>
        mag  == Scale * DigitsValue(ip) + FractionValue(fp)
    IN  IF ip = <<>> /\ fp = <<>>
        THEN [nan |-> TRUE, val |-> 0]
        ELSE [nan |-> FALSE, val |-> IF neg THEN 0 - mag ELSE mag]

\* raw.trim() === '' ? 0 : parseFloat(raw) || 0
ParseCell(raw) ==
    IF Trim(raw) = <<>> THEN 0
    ELSE LET p == ParseFloat(raw) IN IF p.nan THEN 0 ELSE p.val

RECURSIVE NatToText(_)
NatToText(n) ==
    IF n < 10 THEN <<Digits[n + 1]>> ELSE NatToText(n \div 10) \o <<Digits[(n % 10) + 1]>>

\* The fraction f (0..999 thousandths) without trailing zeros.
FractionText(f) ==
    LET a == f \div 100
        b == (f \div 10) % 10
        c == f % 10
    IN  IF c # 0 THEN <<Digits[a + 1], Digits[b + 1], Digits[c + 1]>>
        ELSE IF b # 0 THEN <<Digits[a + 1], Digits[b + 1]>>
        ELSE <<Digits[a + 1]>>

\* Number.prototype.toString of a finite decimal.
NumToString(n) ==
    LET m == IF n < 0 THEN 0 - n ELSE n
        body == NatToText(m \div Scale)
                  \o (IF m % Scale = 0 THEN <<>> ELSE <<".">> \o FractionText(m % Scale))
    IN  IF n < 0 THEN <<"-">> \o body ELSE body

Abs(n) == IF n < 0 THEN 0 - n ELSE n

----------------------------------------------------------------------------
(* LineItemsTable *)

ALLOWED_TAX_RATES == {0, 8, 10}

\* Math.abs(a - b) > 0.01
Epsilon == Scale \div 100

DefaultItem == [description |-> <<>>, qty |-> Scale, unitPrice |-> 0, taxRate |-> 10]

DefaultRaw == [description |-> <<>>, qty |-> <<"1">>, unitPrice |-> <<"0">>, taxRate |-> 10]

\* useState initialiser of rawItems and the effect's plain conversion.
ToRawItem(item) ==
    [description |-> item.description,
     qty         |-> NumToString(item.qty),
     unitPrice   |-> NumToString(item.unitPrice),
     taxRate     |-> item.taxRate]

ToLineItem(raw) ==
    [description |-> raw.description,
     qty         |-> ParseCell(raw.qty),
     unitPrice   |-> ParseCell(raw.unitPrice),
     taxRate     |-> raw.taxRate]

ToLineItems(raws) == [i \in 1..Len(raws) |-> ToLineItem(raws[i])]

IsExternalChange(its, last) ==
    \/ Len(its) # Len(last)
    \/ \E i \in 1..Len(its) :
          \/ i > Len(last)
          \/ its[i].description # last[i].description
          \/ Abs(its[i].qty - last[i].qty) > Epsilon
          \/ Abs(its[i].unitPrice - last[i].unitPrice) > Epsilon
          \/ its[i].taxRate # last[i].taxRate

SyncRawItems(prevRaw, its) ==
    [i \in 1..Len(its) |->
        IF i <= Len(prevRaw)
        THEN [description |-> its[i].description,
              qty         |-> IF its[i].qty = 0 /\ Trim(prevRaw[i].qty) = <<>>
                              THEN <<>> ELSE NumToString(its[i].qty),
              unitPrice   |-> IF its[i].unitPrice = 0 /\ Trim(prevRaw[i].unitPrice) = <<>>
                              THEN <<>> ELSE NumToString(its[i].unitPrice),
              taxRate     |-> its[i].taxRate]
        ELSE ToRawItem(its[i])]

\* The sync effect, run after the render that follows a state change: the raw
\* list and the ref it leaves, given the items prop, the raw list and the ref.
EffectRaw(its, raws, last) ==
    IF IsExternalChange(its, last) THEN SyncRawItems(raws, its) ELSE raws

EffectRef(its, last) ==
    IF IsExternalChange(its, last) THEN its ELSE last

\* A removal that always drops the last row.
RemoveLast(s, index) == SubSeq(s, 1, Len(s) - 1)

RemoveAt(s, index) == [i \in 1..(Len(s) - 1) |-> IF i < index THEN s[i] ELSE s[i + 1]]

----------------------------------------------------------------------------
(* ManualInvoiceForm: line items *)

validateItems(its) ==
    IF Len(its) = 0 THEN "validation.lineItemRequired"
    ELSE IF \E i \in 1..Len(its) :
               \/ Trim(its[i].description) = <<>>
               \/ its[i].qty <= 0
               \/ its[i].unitPrice < 0
               \/ its[i].taxRate \notin {0, 8, 10}
    THEN LET i == CHOOSE k \in 1..Len(its) :
                    /\ \/ Trim(its[k].description) = <<>>
                       \/ its[k].qty <= 0
                       \/ its[k].unitPrice < 0
                       \/ its[k].taxRate \notin {0, 8, 10}
                    /\ \A j \in 1..(k - 1) :
                          /\ Trim(its[j].description) # <<>>
                          /\ its[j].qty > 0
                          /\ its[j].unitPrice >= 0
                          /\ its[j].taxRate \in {0, 8, 10}
         IN  IF Trim(its[i].description) = <<>> THEN "validation.itemDescription"
             ELSE IF its[i].qty <= 0 THEN "validation.itemQuantity"
             ELSE IF its[i].unitPrice < 0 THEN "validation.itemUnitPrice"
             ELSE "validation.itemTaxRate"
    ELSE Undefined

\* handleItemsChange: setItems(newItems); errors.items = validateItems(newItems)
ItemsChangeErrors(errs, newItems) == [errs EXCEPT !["items"] = validateItems(newItems)]

----------------------------------------------------------------------------
(* ManualInvoiceForm: field names, local validators, totals, validity *)

Fields ==
    {"sellerName", "sellerRegNo", "sellerAddress", "buyerName", "buyerAddress",
     "invoiceDate", "dueDate", "invoiceNo", "remarks"}

\* The keys of FormErrors.
ErrorKeys ==
    {"sellerName", "sellerRegNo", "sellerAddress", "buyerName", "buyerAddress",
     "invoiceDate", "dueDate", "invoiceNo", "remarks", "items", "totals"}

BackendFields == {"issuer_name", "issuer_id", "address", "buyer", "date", "invoice_number"}

getUIFieldName(backendFieldName) ==
    CASE backendFieldName = "issuer_name"    -> "sellerName"
      [] backendFieldName = "issuer_id"      -> "sellerRegNo"
      [] backendFieldName = "address"        -> "sellerAddress"
      [] backendFieldName = "buyer"          -> "buyerName"
      [] backendFieldName = "date"           -> "invoiceDate"
      [] backendFieldName = "invoice_number" -> "invoiceNo"
      [] OTHER                               -> backendFieldName

getBackendFieldName(uiFieldName) ==
    CASE uiFieldName = "sellerName"    -> "issuer_name"
      [] uiFieldName = "sellerRegNo"   -> "issuer_id"
      [] uiFieldName = "sellerAddress" -> "address"
      [] uiFieldName = "buyerName"     -> "buyer"
      [] uiFieldName = "invoiceDate"   -> "date"
      [] uiFieldName = "invoiceNo"     -> "invoice_number"
      [] OTHER                         -> uiFieldName

getFieldValidationStatus(status, uiFieldName) ==
    LET b == getBackendFieldName(uiFieldName)
    IN  IF b \in DOMAIN status THEN status[b] ELSE Undefined

\* A value JavaScript takes for true where an error message is tested.
Truthy(e) == e # Undefined /\ e # ""

validateRequired(value) ==
    IF Trim(value) = <<>> THEN "validation.required" ELSE Undefined

\* /^\d{4}-\d{2}-\d{2}$/
DateRegexTest(value) ==
    /\ Len(value) = 10
    /\ \A i \in {1, 2, 3, 4, 6, 7, 9, 10} : IsDigit(value[i])
    /\ value[5] = "-"
    /\ value[8] = "-"

\* !isNaN(new Date(value).getTime()) for a value the regex accepts.
IsCalendarDate(value) ==
    LET month == DigitsValue(SubSeq(value, 6, 7))
        day   == DigitsValue(SubSeq(value, 9, 10))
    IN  month \in 1..12 /\ day \in 1..31

validateDate(value) ==
    IF Trim(value) = <<>> THEN "validation.dateRequired"
    ELSE IF ~DateRegexTest(value) THEN "validation.dateFormat"
    ELSE IF ~IsCalendarDate(value) THEN "validation.invalidDate"
    ELSE Undefined

\* value.replace(/\D/g, '')
RECURSIVE DigitsOnly(_)
DigitsOnly(s) ==
    IF s = <<>> THEN <<>>
    ELSE (IF IsDigit(Head(s)) THEN <<Head(s)>> ELSE <<>>) \o DigitsOnly(Tail(s))

validateSellerRegNo(value) ==
    IF Trim(value) = <<>> THEN "validation.sellerRegistrationRequired"
    ELSE IF Len(DigitsOnly(value)) # 13 THEN "validation.corporateNumberLength"
    ELSE Undefined

\* Math.round(n / d) for d > 0: halves go up.
MathRound(n, d) == (n \div d) + (IF 2 * (n % d) >= d THEN 1 ELSE 0)

RECURSIVE SumSeq(_)
SumSeq(ns) == IF ns = <<>> THEN 0 ELSE Head(ns) + SumSeq(Tail(ns))

\* One cent, in millionths: qty and unitPrice are thousandths, so a line
\* amount is in millionths.
Cent == Scale * 10

\* Math.round(x * 100) for x = (sum of lineAmount * weight / 100), the
\* weights being percents.  The sum is split into whole cents and the rest so
\* that no intermediate value leaves the integers of the checker.
RoundedCents(its, weights) ==
    LET whole == SumSeq([i \in 1..Len(its) |->
                           ((its[i].qty * its[i].unitPrice) \div Cent) * weights[i]])
        rest  == SumSeq([i \in 1..Len(its) |->
                           ((its[i].qty * its[i].unitPrice) % Cent) * weights[i]])
    IN  (whole \div 100) + MathRound(Cent * (whole % 100) + rest, 100 * Cent)

\* The totals memo, in cents: subtotal weighs a line by 100 percent, taxTotal
\* by its tax rate, grandTotal (subtotal + taxTotal before rounding) by both.
computeTotals(its) ==
    [subtotal   |-> RoundedCents(its, [i \in 1..Len(its) |-> 100]),
     taxTotal   |-> RoundedCents(its, [i \in 1..Len(its) |-> its[i].taxRate]),
     grandTotal |-> RoundedCents(its, [i \in 1..Len(its) |-> 100 + its[i].taxRate])]

\* A memo that is never recomputed.
MountTotals(prev, its) == prev

\* useMemo(() => ..., [items]): recomputed in the render whose items differ
\* from those the memo was computed for.
TotalsMemo(prev, its) ==
    IF prev.deps = its THEN prev ELSE [deps |-> its, value |-> computeTotals(its)]

\* A validity in which one rejected field takes every section down with it.
SharedValidity(vals, errs, status, its) ==
    LET clean == /\ \A b \in DOMAIN status : status[b] # "invalid"
                 /\ \A k \in DOMAIN errs : ~Truthy(errs[k])
    IN  [seller |-> clean, buyer |-> clean, invoiceDetails |-> clean,
         lineItems |-> clean, totals |-> clean]

sectionValidity(vals, errs, status, its) ==
    [seller |->
        /\ Trim(vals["sellerName"]) # <<>>
        /\ ~Truthy(errs["sellerName"])
        /\ Trim(vals["sellerRegNo"]) # <<>>
        /\ ~Truthy(errs["sellerRegNo"])
        /\ Trim(vals["sellerAddress"]) # <<>>
        /\ ~Truthy(errs["sellerAddress"])
        /\ getFieldValidationStatus(status, "sellerName") # "invalid"
        /\ getFieldValidationStatus(status, "sellerRegNo") # "invalid"
        /\ getFieldValidationStatus(status, "sellerAddress") # "invalid",
     buyer |->
        /\ Trim(vals["buyerName"]) # <<>>
        /\ ~Truthy(errs["buyerName"])
        /\ Trim(vals["buyerAddress"]) # <<>>
        /\ ~Truthy(errs["buyerAddress"])
        /\ getFieldValidationStatus(status, "buyerName") # "invalid",
     invoiceDetails |->
        /\ Trim(vals["invoiceDate"]) # <<>>
        /\ ~Truthy(errs["invoiceDate"])
        /\ Trim(vals["invoiceNo"]) # <<>>
        /\ ~Truthy(errs["invoiceNo"])
        /\ getFieldValidationStatus(status, "invoiceDate") # "invalid"
        /\ getFieldValidationStatus(status, "invoiceNo") # "invalid",
     lineItems |->
        /\ Len(its) > 0
        /\ ~Truthy(validateItems(its))
        /\ \A i \in 1..Len(its) :
              /\ Trim(its[i].description) # <<>>
              /\ its[i].qty > 0
              /\ its[i].unitPrice >= 0
              /\ its[i].taxRate \in {0, 8, 10},
     totals |-> ~Truthy(errs["totals"]) /\ Len(its) > 0]

\* A validity that only looks at the errors map.
OnlyErrors(vals, errs, status, its) == \A k \in DOMAIN errs : ~Truthy(errs[k])

formIsValidOf(vals, errs, status, its) ==
    LET sv == sectionValidity(vals, errs, status, its)
    IN  /\ sv.seller
        /\ sv.buyer
        /\ sv.invoiceDetails
        /\ sv.lineItems
        /\ sv.totals
        /\ \A k \in DOMAIN errs : ~Truthy(errs[k])

\* The memo of the current render.
formIsValid == formIsValidOf(values, errors, fieldValidationStatus, items)

----------------------------------------------------------------------------
(* ManualInvoiceForm: field handlers *)

RemoteFields == {"sellerName", "sellerRegNo", "sellerAddress", "buyerName", "invoiceDate", "invoiceNo"}

\* Fields with an onBlur handler (remarks has none).
BlurFields == Fields \ {"remarks"}

RequiredFields ==
    {"sellerName", "sellerRegNo", "sellerAddress", "buyerName", "buyerAddress",
     "invoiceDate", "invoiceNo"}

\* The value a change handler stores for the text typed.
ChangeValue(f, typed) == IF f = "sellerRegNo" THEN DigitsOnly(typed) ELSE typed

\* The local synchronous validator of a field, as its blur handler and
\* handleSubmit run it.
LocalValidator(f, value) ==
    CASE f = "sellerRegNo" -> validateSellerRegNo(value)
      [] f = "invoiceDate" -> validateDate(value)
      [] f = "dueDate"     -> IF Trim(value) # <<>> THEN validateDate(value) ELSE Undefined
      [] f = "remarks"     -> Undefined
      [] OTHER             -> validateRequired(value)

\* The error a change handler stores.
ChangeError(f, value, isTouched) ==
    LET hasValue == Trim(value) # <<>>
    IN  CASE f = "remarks" -> Undefined
          [] f = "dueDate" -> IF (isTouched \/ hasValue) /\ hasValue
                              THEN validateDate(value) ELSE Undefined
          [] OTHER         -> IF isTouched \/ hasValue
                              THEN LocalValidator(f, value) ELSE Undefined

\* The value a blur handler hands to validateFieldWithBackend.
WireValue(f, value) == IF f = "sellerRegNo" THEN <<"T">> \o value ELSE value

\* A blur handler that validates remotely whatever the local validator said.
BlurAlways(f, value) == f \in RemoteFields

\* The blur handler's condition for calling validateFieldWithBackend.
BlurValidates(f, value) ==
    /\ f \in RemoteFields
    /\ ~Truthy(LocalValidator(f, value))
    /\ IF f = "sellerRegNo" THEN Len(value) = 13 ELSE Trim(value) # <<>>

\* A validateFieldWithBackend that arms a timer without clearing the field's
\* earlier one.
LeaveTimer(live) == live

\* clearTimeout(validationTimers.current[fieldName]): the handle is that of
\* the timer armed last.
ClearTimer(live) == IF live = <<>> THEN <<>> ELSE SubSeq(live, 1, Len(live) - 1)

\* A validateFieldWithBackend that arms the timer without touching the status.
KeepStatus(status, fieldName) == status

\* setFieldValidationStatus(prev => ({...prev, [fieldName]: 'pending'}))
PendingStatus(status, fieldName) == [status EXCEPT ![fieldName] = "pending"]

NoResponse == [kind |-> "none", status |-> "", messages |-> [shape |-> "absent", texts |-> <<>>],
               message |-> "", error |-> ""]

Wrote(by, late, resp) == [by |-> by, late |-> late, resp |-> resp]

InFlight(fieldName) == \E k \in 1..Len(requests) : requests[k].field = fieldName

\* validateFieldWithBackend(fieldName, fieldValue), up to the setTimeout.
validateFieldWithBackend(fieldName, fieldValue) ==
    IF Trim(fieldValue) = <<>>
    THEN UNCHANGED <<validationTimers, fieldValidationStatus, overlap>>
    ELSE /\ validationTimers' =
                [validationTimers EXCEPT ![fieldName] = Append(ClearTimer(@), fieldValue)]
         /\ fieldValidationStatus' = PendingStatus(fieldValidationStatus, fieldName)
         /\ overlap' = [overlap EXCEPT ![fieldName] = @ \/ InFlight(fieldName)]

handleChange(f, typed) ==
    LET value == ChangeValue(f, typed)
    IN  /\ values' = [values EXCEPT ![f] = value]
        /\ errors' = [errors EXCEPT ![f] = ChangeError(f, value, touchedFields[f])]
        /\ lastWrite' = IF f \in RemoteFields
                        THEN [lastWrite EXCEPT ![getBackendFieldName(f)] =
                                 Wrote("edit", FALSE, NoResponse)]
                        ELSE lastWrite
        /\ UNCHANGED <<touchedFields, fieldValidationStatus, validationTimers, requests, overlap>>

handleBlur(f) ==
    /\ touchedFields' = [touchedFields EXCEPT ![f] = TRUE]
    /\ errors' = [errors EXCEPT ![f] = LocalValidator(f, values[f])]
    /\ IF BlurValidates(f, values[f])
       THEN validateFieldWithBackend(getBackendFieldName(f), WireValue(f, values[f]))
       ELSE UNCHANGED <<validationTimers, fieldValidationStatus, overlap>>
    /\ lastWrite' = IF f \in RemoteFields
                    THEN [lastWrite EXCEPT ![getBackendFieldName(f)] =
                             Wrote("blur", FALSE, NoResponse)]
                    ELSE lastWrite
    /\ UNCHANGED <<values, requests>>

\* The timer callback, up to the await of fetch.
timerFires(fieldName) ==
    /\ validationTimers[fieldName] # <<>>
    /\ validationTimers' = [validationTimers EXCEPT ![fieldName] = Tail(@)]
    /\ fieldValidationStatus' = [fieldValidationStatus EXCEPT ![fieldName] = "validating"]
    /\ requests' = Append(requests,
            [field     |-> fieldName,
             value     |-> Head(validationTimers[fieldName]),
             current   |-> WireValue(getUIFieldName(fieldName), values[getUIFieldName(fieldName)]),
             overtaken |-> FALSE])
    /\ lastWrite' = [lastWrite EXCEPT ![fieldName] = Wrote("timer", FALSE, NoResponse)]
    /\ UNCHANGED <<values, errors, touchedFields, overlap>>

\* The message taken from a 200 response whose status is not 'pass'.
ExtractMessage(result) ==
    LET m == result.messages
    IN  IF m.shape # "absent"
        THEN CASE m.shape = "string"                      -> m.texts[1]
               [] m.shape = "en_array" /\ Len(m.texts) > 0 -> m.texts[1]
               [] m.shape = "en_string"                   -> m.texts[1]
               [] m.shape = "array" /\ Len(m.texts) > 0    -> m.texts[1]
               [] OTHER                                   -> "Validation failed"
        ELSE IF Truthy(result.message) THEN result.message
        ELSE IF Truthy(result.error) THEN result.error
        ELSE "Validation failed"

\* A callback whose catch block stores the error and forgets the status.
NoStatusOnThrow(resp) ==
    CASE resp.kind = "neterr"                       -> "validating"
      [] resp.kind = "ok" /\ resp.status = "pass" -> "valid"
      [] OTHER                                      -> "invalid"

\* The status and the error the callback stores for a response.
ResponseStatus(resp) ==
    IF resp.kind = "ok" /\ resp.status = "pass" THEN "valid" ELSE "invalid"

ResponseError(resp) ==
    CASE resp.kind = "neterr" -> "validation.requestFailed"
      [] resp.kind = "http"   -> IF Truthy(resp.error) THEN resp.error ELSE "Validation failed"
      [] resp.status = "pass" -> Undefined
      [] OTHER                -> ExtractMessage(resp)

\* A callback that drops the answer of a request that is no longer the one
\* the status is waiting for.
ApplyIfValidating(status, fieldName, resp) ==
    IF status[fieldName] = "validating"
    THEN [status EXCEPT ![fieldName] = IF resp.kind = "ok" /\ resp.status = "pass"
                                        THEN "valid" ELSE "invalid"]
    ELSE status

\* setFieldValidationStatus / setErrors of the callback: plain overwrites.
ApplyStatus(status, fieldName, resp) == [status EXCEPT ![fieldName] = ResponseStatus(resp)]

ApplyError(errs, uiFieldName, resp) == [errs EXCEPT ![uiFieldName] = ResponseError(resp)]

\* The requests left once request k is answered; the requests of the same
\* field issued before it have now been overtaken.
Answered(reqs, k) ==
    [i \in 1..(Len(reqs) - 1) |->
        IF i < k
        THEN [reqs[i] EXCEPT !.overtaken = @ \/ reqs[i].field = reqs[k].field]
        ELSE reqs[i + 1]]

\* The rest of the timer callback, once fetch settles for request k.
fieldResponse(k, resp) ==
    /\ k \in 1..Len(requests)
    /\ LET fieldName == requests[k].field
           left      == Answered(requests, k)
       IN  /\ fieldValidationStatus' = ApplyStatus(fieldValidationStatus, fieldName, resp)
           /\ errors' = ApplyError(errors, getUIFieldName(fieldName), resp)
           /\ requests' = left
           /\ lastWrite' = [lastWrite EXCEPT ![fieldName] =
                               Wrote("response", requests[k].overtaken, resp)]
           /\ overlap' = [overlap EXCEPT ![fieldName] =
                             /\ @
                             /\ \/ validationTimers[fieldName] # <<>>
                                \/ \E i \in 1..Len(left) : left[i].field = fieldName]
    /\ UNCHANGED <<values, touchedFields, validationTimers>>

----------------------------------------------------------------------------
(* ManualInvoiceForm: handleSubmit *)

\* A message is a sequence of parts; null is the empty one.
NoMessage == <<>>

PleaseFix == <<"Please fix validation errors before submitting">>

\* v || undefined
Optional(v) == [defined |-> v # <<>>, text |-> v]

\* `${item.taxRate}%`
TaxRateText(n) == NatToText(n) \o <<"%">>

BuildPayload(vals, its, tots) ==
    [sellerName    |-> vals["sellerName"],
     sellerRegNo   |-> vals["sellerRegNo"],
     sellerAddress |-> vals["sellerAddress"],
     buyerName     |-> vals["buyerName"],
     buyerAddress  |-> vals["buyerAddress"],
     invoiceDate   |-> vals["invoiceDate"],
     dueDate       |-> Optional(vals["dueDate"]),
     invoiceNo     |-> vals["invoiceNo"],
     remarks       |-> Optional(vals["remarks"]),
     items         |-> [i \in 1..Len(its) |->
                          [description |-> Trim(its[i].description),
                           qty         |-> its[i].qty,
                           unitPrice   |-> its[i].unitPrice,
                           taxRate     |-> TaxRateText(its[i].taxRate)]],
     totals        |-> tots]

BuildFormData(vals, its) ==
    [sellerName    |-> vals["sellerName"],
     sellerRegNo   |-> vals["sellerRegNo"],
     sellerAddress |-> vals["sellerAddress"],
     buyerName     |-> vals["buyerName"],
     buyerAddress  |-> vals["buyerAddress"],
     invoiceDate   |-> vals["invoiceDate"],
     dueDate       |-> vals["dueDate"],
     invoiceNo     |-> vals["invoiceNo"],
     items         |-> [i \in 1..Len(its) |->
                          [description |-> its[i].description,
                           qty         |-> its[i].qty,
                           unitPrice   |-> its[i].unitPrice,
                           taxRate     |-> TaxRateText(its[i].taxRate),
                           amount      |-> its[i].qty * its[i].unitPrice]]]

\* The errors map handleSubmit sets: the local validators on the current values.
SubmitErrors(vals) ==
    [k \in ErrorKeys |->
        IF k \in Fields \ {"remarks"} THEN LocalValidator(k, vals[k]) ELSE Undefined]

Idle == [pc |-> "idle"]

NotDelivered == [called |-> FALSE]

NoValidateResponse ==
    [kind |-> "none", msg |-> "", error |-> "", details |-> <<>>, statusText |-> "",
     result |-> [compliant |-> FALSE, issues |-> <<>>, normalized |-> "", status |-> ""]]

NoPdfResponse == [kind |-> "none", msg |-> "", error |-> ""]

\* No request body: the call was not made.
NoBody == [sent |-> FALSE]

NoAttempt ==
    [localInvalid |-> FALSE, validateCalls |-> 0, generateCalls |-> 0,
     vresp |-> NoValidateResponse, presp |-> NoPdfResponse,
     clicked |-> [taken |-> FALSE], validateBody |-> NoBody, generateBody |-> NoBody]

\* A submit button that only the form's validity disables.
EnabledWhenValid == formIsValid

\* The submit button: disabled={!formIsValid || isSubmitting || isGeneratingPdf}
SubmitEnabled == formIsValid /\ ~isSubmitting /\ ~isGeneratingPdf

\* handleSubmit up to its first await: the final local pass and, when it lets
\* the attempt through, the fetch of /manual-invoice/validate.  formIsValid is
\* the memo of the render the handler closed over.
handleSubmit ==
    LET fresh     == SubmitErrors(values)
        itemError == validateItems(items)
        invalid   == \/ \E f \in RequiredFields : Truthy(fresh[f])
                     \/ Truthy(itemError)
        \* what the handler closed over: the state of the render it belongs to
        clicked   == [taken |-> TRUE, values |-> values, items |-> items,
                      totals |-> totals.value]
    IN  /\ touchedFields' = [f \in Fields |-> TRUE]
        /\ lastWrite' = [b \in BackendFields |-> Wrote("submit", FALSE, NoResponse)]
        /\ delivered' = NotDelivered
        /\ IF Truthy(itemError)
           THEN /\ errors' = [fresh EXCEPT !["items"] = itemError]
                /\ submitError' = PleaseFix
                /\ attempt' = [NoAttempt EXCEPT !.localInvalid = invalid,
                                                 !.clicked = clicked]
                /\ UNCHANGED <<isSubmitting, pending>>
           ELSE IF ~formIsValid
           THEN /\ errors' = fresh
                /\ submitError' = PleaseFix
                /\ attempt' = [NoAttempt EXCEPT !.localInvalid = invalid,
                                                 !.clicked = clicked]
                /\ UNCHANGED <<isSubmitting, pending>>
           ELSE /\ errors' = fresh
                /\ submitError' = NoMessage
                /\ isSubmitting' = TRUE
                /\ pending' = [pc       |-> "validate",
                               payload  |-> BuildPayload(values, items, totals.value),
                               remarks  |-> Optional(values["remarks"]),
                               formData |-> BuildFormData(values, items)]
                /\ attempt' = [NoAttempt EXCEPT !.localInvalid = invalid,
                                                 !.validateCalls = 1,
                                                 !.clicked = clicked,
                                                 !.validateBody = BuildPayload(values, items, totals.value)]
        /\ UNCHANGED <<isGeneratingPdf, values, fieldValidationStatus, validationTimers,
                       requests, overlap, lineVars>>

\* A message that prefers the error over the details.
ErrorBeforeDetails(resp) ==
    IF Truthy(resp.error) THEN <<resp.error>>
    ELSE IF Len(resp.details) > 0 THEN <<resp.details[1]>>
    ELSE <<"Validation failed: ", resp.statusText>>

\* The message thrown for a non-2xx answer of /manual-invoice/validate.
ValidateErrorMessage(resp) ==
    IF Len(resp.details) > 0 THEN <<resp.details[1]>>
    ELSE IF Truthy(resp.error) THEN <<resp.error>>
    ELSE <<"Validation failed: ", resp.statusText>>

\* A flow that goes on to the artifact call whatever /manual-invoice/validate
\* answered.
validateResponseEager(resp) ==
    /\ pending.pc = "validate"
    /\ attempt' = [attempt EXCEPT !.vresp = resp, !.generateCalls = 1]
    /\ submitError' = IF Len(resp.result.issues) > 0
                      THEN <<resp.result.issues[1]>> ELSE submitError
    /\ isGeneratingPdf' = TRUE
    /\ pending' = [pc |-> "generate", payload |-> pending.payload,
                   remarks |-> pending.remarks, formData |-> pending.formData,
                   result |-> resp.result]
    /\ UNCHANGED <<isSubmitting, delivered>>

\* A flow that treats reported issues as a failure of the submission.
validateResponseBlocking(resp) ==
    /\ pending.pc = "validate"
    /\ IF resp.kind = "ok" /\ resp.result.issues = <<>>
       THEN /\ attempt' = [attempt EXCEPT !.vresp = resp, !.generateCalls = 1]
            /\ isGeneratingPdf' = TRUE
            /\ pending' = [pc |-> "generate", payload |-> pending.payload,
                           remarks |-> pending.remarks, formData |-> pending.formData,
                           result |-> resp.result]
            /\ UNCHANGED <<isSubmitting, submitError>>
       ELSE /\ attempt' = [attempt EXCEPT !.vresp = resp]
            /\ submitError' = IF resp.kind = "ok" THEN <<resp.result.issues[1]>>
                              ELSE IF resp.kind = "http" THEN <<resp.error>>
                              ELSE <<resp.msg>>
            /\ isSubmitting' = FALSE
            /\ pending' = Idle
            /\ UNCHANGED isGeneratingPdf
    /\ UNCHANGED delivered

\* A flow whose failure path never reaches the finally that releases the form.
validateResponseLocking(resp) ==
    /\ pending.pc = "validate"
    /\ attempt' = [attempt EXCEPT !.vresp = resp,
                                  !.generateCalls = IF resp.kind = "ok" THEN 1 ELSE 0]
    /\ IF resp.kind = "ok"
       THEN /\ submitError' = IF Len(resp.result.issues) > 0
                              THEN <<resp.result.issues[1]>> ELSE submitError
            /\ isGeneratingPdf' = TRUE
            /\ pending' = [pc |-> "generate", payload |-> pending.payload,
                           remarks |-> pending.remarks, formData |-> pending.formData,
                           result |-> resp.result]
            /\ UNCHANGED isSubmitting
       ELSE /\ submitError' = IF resp.kind = "http"
                              THEN ValidateErrorMessage(resp) ELSE <<resp.msg>>
            /\ pending' = Idle
            /\ UNCHANGED <<isSubmitting, isGeneratingPdf>>
    /\ UNCHANGED delivered

\* handleSubmit from the answer of /manual-invoice/validate to its next await
\* (the fetch of /manual-invoice/generate) or to its end (catch, finally).
validateResponse(resp) ==
    /\ pending.pc = "validate"
    /\ attempt' = [attempt EXCEPT !.vresp = resp,
                                  !.generateCalls = IF resp.kind = "ok" THEN 1 ELSE 0,
                                  !.generateBody = IF resp.kind = "ok" THEN pending.payload
                                                   ELSE NoBody]
    /\ IF resp.kind = "ok"
       THEN /\ submitError' = IF Len(resp.result.issues) > 0
                              THEN <<resp.result.issues[1]>> ELSE submitError
            /\ isGeneratingPdf' = TRUE
            /\ pending' = [pc |-> "generate", payload |-> pending.payload,
                           remarks |-> pending.remarks, formData |-> pending.formData,
                           result |-> resp.result]
            /\ UNCHANGED isSubmitting
       ELSE /\ submitError' = IF resp.kind = "http"
                              THEN ValidateErrorMessage(resp) ELSE <<resp.msg>>
            /\ isSubmitting' = FALSE
            /\ pending' = Idle
            /\ UNCHANGED isGeneratingPdf
    /\ UNCHANGED delivered

\* The warning recorded when the artifact call fails.
PdfWarning(resp) ==
    IF resp.kind = "http"
    THEN (IF Truthy(resp.error) THEN <<resp.error>> ELSE <<"PDF generation failed">>)
    ELSE <<resp.msg>>

\* A flow that hands out a URL whatever the artifact call answered.
AlwaysUrl(resp) == "blob:pdf"

PdfUrl(resp) == IF resp.kind = "ok" THEN "blob:pdf" ELSE Undefined

\* The argument of onValidated.
Delivery(result, pdfUrl, remarks, formData) ==
    [called     |-> TRUE,
     compliant  |-> result.compliant,
     issues     |-> result.issues,
     normalized |-> result.normalized,
     status     |-> result.status,
     pdfUrl     |-> pdfUrl,
     remarks    |-> remarks,
     formData   |-> formData]

\* A flow that builds the echo of the form from the values on screen when the
\* artifact call returns.
pdfResponseFresh(resp) ==
    /\ pending.pc = "generate"
    /\ attempt' = [attempt EXCEPT !.presp = resp]
    /\ submitError' = IF resp.kind = "ok" THEN submitError ELSE PdfWarning(resp)
    /\ isGeneratingPdf' = FALSE
    /\ delivered' = Delivery(pending.result, PdfUrl(resp), Optional(values["remarks"]),
                             BuildFormData(values, items))
    /\ isSubmitting' = FALSE
    /\ pending' = Idle

\* A flow that releases isGeneratingPdf only after an artifact that arrived.
pdfResponseNoFinally(resp) ==
    /\ pending.pc = "generate"
    /\ attempt' = [attempt EXCEPT !.presp = resp]
    /\ submitError' = IF resp.kind = "ok" THEN submitError ELSE PdfWarning(resp)
    /\ isGeneratingPdf' = (resp.kind # "ok")
    /\ delivered' = Delivery(pending.result, PdfUrl(resp), pending.remarks, pending.formData)
    /\ isSubmitting' = FALSE
    /\ pending' = Idle

\* handleSubmit from the answer of /manual-invoice/generate to its end.
pdfResponse(resp) ==
    /\ pending.pc = "generate"
    /\ attempt' = [attempt EXCEPT !.presp = resp]
    /\ submitError' = IF resp.kind = "ok" THEN submitError ELSE PdfWarning(resp)
    /\ isGeneratingPdf' = FALSE
    /\ delivered' = Delivery(pending.result, PdfUrl(resp), pending.remarks, pending.formData)
    /\ isSubmitting' = FALSE
    /\ pending' = Idle

----------------------------------------------------------------------------
(* FileDropzone *)

\* 5 * 1024 * 1024
MAX_FILE_SIZE == 5 * 1024 * 1024

\* String.prototype.toLowerCase, on the letters file names are made of here.
ToLowerCase(s) ==
    LET upper == <<"A", "C", "S", "V", "T", "X">>
        lower == <<"a", "c", "s", "v", "t", "x">>
        Char(c) == IF \E i \in 1..Len(upper) : upper[i] = c
                   THEN lower[CHOOSE i \in 1..Len(upper) : upper[i] = c]
                   ELSE c
    IN  [i \in 1..Len(s) |-> Char(s[i])]

\* String.prototype.endsWith
EndsWith(s, suffix) ==
    /\ Len(s) >= Len(suffix)
    /\ SubSeq(s, Len(s) - Len(suffix) + 1, Len(s)) = suffix

\* A check that only looks at the extension.
ExtensionOnly(file) ==
    IF ~EndsWith(ToLowerCase(file.name), <<".", "c", "s", "v">>)
    THEN <<"bulk.onlyCsv">>
    ELSE <<>>

\* validateFile: the message of the first check that fails, a message being
\* the key given to t() and what replaces its {limit}; null is the empty one.
validateFile(file) ==
    IF ~EndsWith(ToLowerCase(file.name), <<".", "c", "s", "v">>)
    THEN <<"bulk.onlyCsv">>
    ELSE IF file.size > MAX_FILE_SIZE
    THEN <<"bulk.fileSizeExceeded", NatToText(MAX_FILE_SIZE \div (1024 * 1024))>>
    ELSE <<>>

\* handleFile(file), under a parent that passes onError or leaves it out.
\* onError('') clears an earlier error.
handleFile(file, onErrorGiven) ==
    LET error == validateFile(file)
    IN  /\ handled' = [given |-> TRUE, file |-> file, onError |-> onErrorGiven]
        /\ calls' =
              IF error # <<>>
              THEN calls \o (IF onErrorGiven
                             THEN <<[fn |-> "onError", message |-> error]>> ELSE <<>>)
              ELSE calls \o (IF onErrorGiven
                             THEN <<[fn |-> "onError", message |-> <<>>]>> ELSE <<>>)
                         \o <<[fn |-> "onFileSelect", file |-> file]>>

handleDragOver == isDragging' = TRUE /\ UNCHANGED <<calls, handled>>

handleDragLeave == isDragging' = FALSE /\ UNCHANGED <<calls, handled>>

\* handleDrop: only files[0] of the dropped list is looked at.
handleDrop(files, onErrorGiven) ==
    /\ isDragging' = FALSE
    /\ IF Len(files) > 0
       THEN handleFile(files[1], onErrorGiven)
       ELSE handled' = [given |-> FALSE] /\ UNCHANGED calls

\* handleFileInput: files[0] of the input, whose value is then reset so that
\* the same file can be chosen again.
handleFileInput(files, onErrorGiven) ==
    /\ IF Len(files) > 0
       THEN handleFile(files[1], onErrorGiven)
       ELSE handled' = [given |-> FALSE] /\ UNCHANGED calls
    /\ UNCHANGED isDragging

----------------------------------------------------------------------------
(* BusinessLookupBulkPage *)

\* handleFileError(message): '' clears the file error (null is the empty
\* message).
handleFileError(pg, message) == [pg EXCEPT !.fileError = message]

\* handleFileSelect(file) up to its await of lookupCsv.  rendered is the state
\* of the render whose handleFileSelect the dropzone was given: the handler
\* reads fileError from that closure, and its setters queue on pg.
handleFileSelect(rendered, pg, file) ==
    IF rendered.fileError # <<>>
    THEN pg
    ELSE [pg EXCEPT !.error = <<>>,
                    !.fileError = <<>>,
                    !.results = <<>>,
                    !.loading = TRUE,
                    !.lookups = Append(@, file),
                    !.awaited = Append(@, file)]

\* <FileDropzone onFileSelect={handleFileSelect} onError={handleFileError} />:
\* the calls one event makes run in order inside that event, before the page
\* renders again.
PageAfter(rendered, made) ==
    LET Run[n \in 0..Len(made)] ==
            IF n = 0 THEN rendered
            ELSE IF made[n].fn = "onError"
                 THEN handleFileError(Run[n - 1], made[n].message)
                 ELSE handleFileSelect(rendered, Run[n - 1], made[n].file)
    IN  Run[Len(made)]

\* handleFileSelect from the answer of lookupCsv to its end.
lookupSettled(pg, k, resp) ==
    LET left == [i \in 1..(Len(pg.awaited) - 1) |->
                    IF i < k THEN pg.awaited[i] ELSE pg.awaited[i + 1]]
    IN  IF resp.kind = "ok"
        THEN [pg EXCEPT !.results = resp.results,
                        !.error = IF Len(resp.errors) > 0
                                  THEN <<"bulk.validationErrorsFound">> \o resp.errors
                                  ELSE <<>>,
                        !.loading = FALSE,
                        !.awaited = left]
        ELSE [pg EXCEPT !.error = IF resp.isError THEN <<resp.message>>
                                  ELSE <<"bulk.csvProcessingFailed">>,
                        !.results = <<>>,
                        !.loading = FALSE,
                        !.awaited = left]

----------------------------------------------------------------------------
(* The legacy invoice form: script.js *)

\* The fields validateFullForm walks through, in its order.
LegacyFields ==
    {"issuer_name", "buyer", "invoice_number", "date", "issuer_id", "email", "phone",
     "address", "tax_rate"}

requiredFields == {"issuer_name", "buyer", "invoice_number"}

\* validateFullForm: form gives each field's text, answers what the
\* /validate_field call of a field does (data.status, or "throw" when fetch or
\* response.json() rejects).  A required field that is blank is missing and is
\* not sent; another blank field is skipped.
validateFullForm(form, answers) ==
    LET blank(f) == Trim(form[f]) = <<>>
        missingRequired == {f \in requiredFields : blank(f)}
        sent == {f \in LegacyFields : ~blank(f)}
    IN  [done            |-> TRUE,
         hasErrors       |-> \/ missingRequired # {}
                             \/ \E f \in sent \cap requiredFields :
                                    answers[f] \in {"fail", "throw"},
         hasWarnings     |-> \E f \in sent \ requiredFields : answers[f] = "fail",
         missingRequired |-> missingRequired,
         results         |-> [f \in {g \in sent : answers[g] # "throw"} |-> answers[f]]]

\* The submit listener up to its await: a submit event that finds shouldSubmit
\* set is let through to the browser, one that finds isSubmitting set is
\* cancelled, any other is cancelled and starts a validation pass.
submitListener(lg) ==
    IF lg.shouldSubmit
    THEN [lg EXCEPT !.shouldSubmit = FALSE,
                    !.native = Append(@, [form |-> lg.form, validation |-> lg.validation])]
    ELSE IF lg.isSubmitting
    THEN lg
    ELSE [lg EXCEPT !.isSubmitting = TRUE, !.pc = "validating"]

----------------------------------------------------------------------------
(* Inputs *)

DescTexts == { <<>>, <<"D">>, <<" ">> }

\* Text typed into a qty or unitPrice cell.
CellTexts ==
    { <<>>, <<" ">>, <<"0">>, <<"5">>, <<"1", ".">>, <<"1", ".", "0">>,
      <<"2", ".", "5">>, <<"-", "2">>, <<"a">> }

\* Lists a parent may put in the items prop on its own (a reset, a reload).
ExternalItems ==
    { DefaultItem,
      [description |-> <<>>, qty |-> Scale + 5, unitPrice |-> 0, taxRate |-> 10],
      [description |-> <<>>, qty |-> 0, unitPrice |-> 0, taxRate |-> 8],
      [description |-> <<"D">>, qty |-> 2 * Scale, unitPrice |-> Scale + 500, taxRate |-> 8],
      [description |-> <<"D">>, qty |-> 2 * Scale + 5, unitPrice |-> Scale + 500, taxRate |-> 8] }

ExternalLists ==
    { <<a>> : a \in ExternalItems } \cup { <<a, DefaultItem>> : a \in ExternalItems }

Today == <<"2", "0", "2", "6", "-", "1", "1", "-", "0", "6">>

Tomorrow == <<"2", "0", "2", "6", "-", "1", "1", "-", "0", "7">>

BadMonth == <<"2", "0", "2", "6", "-", "1", "3", "-", "0", "1">>

RegNo13 == <<"1", "2", "3", "4", "5", "6", "7", "8", "9", "0", "1", "2", "3">>

RegNo12 == <<"1", "2", "3", "4", "5", "6", "7", "8", "9", "0", "1", "2">>

\* Text typed into a field.
FieldInputs(f) ==
    CASE f = "sellerRegNo"              -> { <<>>, RegNo13, RegNo12, <<"x">> }
      [] f \in {"invoiceDate", "dueDate"} -> { <<>>, Today, Tomorrow, BadMonth, <<"x">> }
      [] f = "remarks"                  -> { <<>>, <<" ", "r">> }
      [] OTHER                          -> { <<>>, <<" ">>, <<"A">>, <<" ", "B">> }

\* Answers of /validate_field.
FieldResponses ==
    { [kind |-> "ok", status |-> "pass", messages |-> [shape |-> "absent", texts |-> <<>>],
       message |-> "", error |-> ""],
      [kind |-> "ok", status |-> "fail",
       messages |-> [shape |-> "en_array", texts |-> <<"Unknown issuer", "Second">>],
       message |-> "", error |-> ""],
      [kind |-> "ok", status |-> "fail", messages |-> [shape |-> "absent", texts |-> <<>>],
       message |-> "", error |-> ""],
      [kind |-> "ok", status |-> "fail", messages |-> [shape |-> "en_array", texts |-> <<"">>],
       message |-> "Rejected", error |-> ""],
      [kind |-> "http", status |-> "", messages |-> [shape |-> "absent", texts |-> <<>>],
       message |-> "", error |-> "Unknown field"],
      [kind |-> "neterr", status |-> "", messages |-> [shape |-> "absent", texts |-> <<>>],
       message |-> "", error |-> ""] }

ResultOk ==
    [compliant |-> TRUE, issues |-> <<>>, normalized |-> "normalized", status |-> "compliant"]

ResultIssues ==
    [compliant |-> FALSE, issues |-> <<"Issue one", "Issue two">>,
     normalized |-> "normalized", status |-> "needs_review"]

\* Answers of /manual-invoice/validate.
ValidateResponses ==
    { [NoValidateResponse EXCEPT !.kind = "ok", !.result = ResultOk],
      [NoValidateResponse EXCEPT !.kind = "ok", !.result = ResultIssues],
      [NoValidateResponse EXCEPT !.kind = "http", !.error = "Invalid invoice",
                                 !.statusText = "Bad Request"],
      [NoValidateResponse EXCEPT !.kind = "http", !.error = "Invalid invoice",
                                 !.details = <<"Detail one", "Detail two">>,
                                 !.statusText = "Bad Request"],
      [NoValidateResponse EXCEPT !.kind = "http", !.statusText = "Bad Gateway"],
      [NoValidateResponse EXCEPT !.kind = "neterr", !.msg = "Failed to fetch"] }

\* Answers of /manual-invoice/generate.
PdfResponses ==
    { [NoPdfResponse EXCEPT !.kind = "ok"],
      [NoPdfResponse EXCEPT !.kind = "http", !.error = "PDF service down"],
      [NoPdfResponse EXCEPT !.kind = "http"],
      [NoPdfResponse EXCEPT !.kind = "neterr", !.msg = "Failed to fetch"] }

----------------------------------------------------------------------------
(* LineItemsTable: handlers.  Each action is the handler, the parent's       *)
(* handleItemsChange it calls, and the sync effect of the render that        *)
(* follows.                                                                *)

\* What a handler leaves: the raw list it set, the list it handed to the
\* parent, and the ref it stored; then the effect runs on them.
Commit(updatedRaw, lineItems, ref) ==
    /\ items' = lineItems
    /\ totals' = TotalsMemo(totals, lineItems)
    /\ errors' = ItemsChangeErrors(errors, lineItems)
    /\ rawItems' = EffectRaw(lineItems, updatedRaw, ref)
    /\ lastItemsRef' = EffectRef(lineItems, ref)

\* A handler that leaves the ref as it was.
StaleRef(lineItems, oldRef) == oldRef

\* The ref handleItemChange / handleNumericBlur / handleAddRow / handleRemoveRow
\* store before calling onItemsChange.
OwnRef(lineItems, oldRef) == lineItems

handleItemChange(index, field, value) ==
    /\ index \in 1..Len(rawItems)
    /\ LET updated   == [rawItems EXCEPT ![index] = [@ EXCEPT ![field] = value]]
           lineItems == ToLineItems(updated)
       IN  Commit(updated, lineItems, OwnRef(lineItems, lastItemsRef))

\* The raw text handleNumericBlur leaves in a cell.
BlurText(rawValue) ==
    IF Trim(rawValue) = <<>> THEN <<>> ELSE NumToString(ParseCell(rawValue))

handleNumericBlur(index, field) ==
    /\ index \in 1..Len(rawItems)
    /\ LET updated   == [rawItems EXCEPT ![index] = [@ EXCEPT ![field] = BlurText(@)]]
           lineItems == ToLineItems(updated)
       IN  Commit(updated, lineItems, OwnRef(lineItems, lastItemsRef))

handleAddRow ==
    /\ Len(items) < MaxRows
    /\ LET updatedItems == Append(items, DefaultItem)
       IN  Commit(Append(rawItems, DefaultRaw), updatedItems, OwnRef(updatedItems, lastItemsRef))

handleRemoveRow(index) ==
    /\ index \in 1..Len(items)
    /\ IF Len(items) > 1
       THEN LET updated == RemoveAt(items, index)
            IN  Commit(RemoveAt(rawItems, index), updated, OwnRef(updated, lastItemsRef))
       ELSE UNCHANGED <<items, errors, rawItems, lastItemsRef, totals>>

\* The parent replaces the items prop; the table only sees the new prop.
ExternalReplace(newItems) ==
    /\ items' = newItems
    /\ totals' = TotalsMemo(totals, newItems)
    /\ UNCHANGED errors
    /\ rawItems' = EffectRaw(newItems, rawItems, lastItemsRef)
    /\ lastItemsRef' = EffectRef(newItems, lastItemsRef)

----------------------------------------------------------------------------
(* Initial states *)

\* The form as mounted: empty fields, one default row, and the mount effect
\* that sets the invoice date to today.
FormFresh ==
    /\ errors = [k \in ErrorKeys |-> Undefined]
    /\ touchedFields = [f \in Fields |-> FALSE]
    /\ fieldValidationStatus = [b \in BackendFields |-> Undefined]
    /\ validationTimers = [b \in BackendFields |-> <<>>]
    /\ requests = <<>>
    /\ isSubmitting = FALSE
    /\ isGeneratingPdf = FALSE
    /\ submitError = NoMessage
    /\ pending = Idle
    /\ delivered = NotDelivered
    /\ attempt = NoAttempt
    /\ overlap = [b \in BackendFields |-> FALSE]
    /\ isDragging = FALSE
    /\ calls = <<>>
    /\ handled = [given |-> FALSE]
    /\ fileEvents = 0
    /\ page = [fileError |-> <<>>, error |-> <<>>, loading |-> FALSE, results |-> <<>>,
               lookups |-> <<>>, awaited |-> <<>>]
    /\ legacy = [form |-> [f \in LegacyFields |-> <<"x">>], isSubmitting |-> FALSE,
                 shouldSubmit |-> FALSE, pc |-> "idle", validation |-> [done |-> FALSE],
                 native |-> <<>>, events |-> 0]
    /\ mounted = TRUE
    /\ ops = 0
    /\ blurs = 0
    /\ submits = 0

Mounted ==
    /\ FormFresh
    /\ values = [f \in Fields |-> IF f = "invoiceDate" THEN Today ELSE <<>>]
    /\ lastWrite = [b \in BackendFields |-> Wrote("none", FALSE, NoResponse)]
    /\ items = <<DefaultItem>>
    /\ totals = [deps |-> items, value |-> computeTotals(items)]
    /\ rawItems = [i \in 1..1 |-> ToRawItem(DefaultItem)]
    /\ lastItemsRef = <<DefaultItem>>

\* What the user types to fill in the form.
TypedValues ==
    [f \in Fields |->
        CASE f = "sellerRegNo" -> RegNo13
          [] f = "invoiceDate" -> Today
          [] f \in {"dueDate", "remarks"} -> <<>>
          [] OTHER -> <<"A">>]

TypedRow == [description |-> <<"D">>, qty |-> <<"2">>, unitPrice |-> <<"2", ".", "5">>, taxRate |-> 10]

\* The mounted form after the user has typed a value into every required
\* field and into the cells of the row, and has left no field yet: every
\* value went through its change handler, which stored no error.
Filled ==
    /\ FormFresh
    /\ values = [f \in Fields |-> ChangeValue(f, TypedValues[f])]
    /\ \A f \in Fields : ChangeError(f, values[f], FALSE) = Undefined
    /\ lastWrite = [b \in BackendFields |->
                      IF getUIFieldName(b) = "invoiceDate"
                      THEN Wrote("none", FALSE, NoResponse)
                      ELSE Wrote("edit", FALSE, NoResponse)]
    /\ rawItems = <<TypedRow>>
    /\ items = ToLineItems(rawItems)
    /\ totals = [deps |-> items, value |-> computeTotals(items)]
    /\ lastItemsRef = items
    /\ validateItems(items) = Undefined

----------------------------------------------------------------------------
(* The line-items table under a parent that may also replace the list *)

InitLines == Mounted

CanStep == ops < MaxLineOps

Tick == ops' = ops + 1

RestOfForm == UNCHANGED <<fieldVars, submitVars, historyVars, dropVars, pageVars, mounted, blurs, submits>>

EditDescription ==
    \E i \in 1..MaxRows, v \in DescTexts :
        CanStep /\ Tick /\ handleItemChange(i, "description", v) /\ RestOfForm

EditQty ==
    \E i \in 1..MaxRows, v \in CellTexts :
        CanStep /\ Tick /\ handleItemChange(i, "qty", v) /\ RestOfForm

EditUnitPrice ==
    \E i \in 1..MaxRows, v \in CellTexts :
        CanStep /\ Tick /\ handleItemChange(i, "unitPrice", v) /\ RestOfForm

EditTaxRate ==
    \E i \in 1..MaxRows, v \in ALLOWED_TAX_RATES :
        CanStep /\ Tick /\ handleItemChange(i, "taxRate", v) /\ RestOfForm

BlurCell ==
    \E i \in 1..MaxRows, f \in {"qty", "unitPrice"} :
        CanStep /\ Tick /\ handleNumericBlur(i, f) /\ RestOfForm

AddRow == CanStep /\ Tick /\ handleAddRow /\ RestOfForm

RemoveRow == \E i \in 1..MaxRows : CanStep /\ Tick /\ handleRemoveRow(i) /\ RestOfForm

ParentReplace == \E l \in ExternalLists : CanStep /\ Tick /\ ExternalReplace(l) /\ RestOfForm

NextLines ==
    \/ EditDescription
    \/ EditQty
    \/ EditUnitPrice
    \/ EditTaxRate
    \/ BlurCell
    \/ AddRow
    \/ RemoveRow
    \/ ParentReplace

SpecLines == InitLines /\ [][NextLines]_vars

----------------------------------------------------------------------------
(* The totals of the rows typed into the form (SpecTotals) *)

\* Text typed into the qty and unitPrice cells of an invoice row.
QtyTexts == { <<"1">>, <<"2">>, <<"-", "1">>, <<"1", ".", "5">> }

PriceTexts ==
    { <<"0">>, <<"3", "0", "0">>, <<"5", "0", "0">>, <<"0", ".", "0", "0", "5">>,
      <<"2", ".", "9", "9">> }

CanType == ops < MaxTotalOps

TypeQty ==
    \E i \in 1..MaxRows, v \in QtyTexts :
        CanType /\ Tick /\ handleItemChange(i, "qty", v) /\ RestOfForm

TypeUnitPrice ==
    \E i \in 1..MaxRows, v \in PriceTexts :
        CanType /\ Tick /\ handleItemChange(i, "unitPrice", v) /\ RestOfForm

PickTaxRate ==
    \E i \in 1..MaxRows, v \in ALLOWED_TAX_RATES :
        CanType /\ Tick /\ handleItemChange(i, "taxRate", v) /\ RestOfForm

AddInvoiceRow == CanType /\ Tick /\ handleAddRow /\ RestOfForm

NextTotals ==
    \/ TypeQty
    \/ TypeUnitPrice
    \/ PickTaxRate
    \/ AddInvoiceRow

SpecTotals == Mounted /\ [][NextTotals]_vars

----------------------------------------------------------------------------
(* The CSV dropzone (SpecDropzone) *)

Files ==
    [name : { <<"a", ".", "c", "s", "v">>, <<"a", ".", "C", "S", "V">>,
              <<"a", ".", "C", "s", "v">>, <<"a", ".", "t", "x", "t">>, <<"c", "s", "v">>,
              <<".", "c", "s", "v">>, <<"a", ".", "c", "s", "v", ".", "t", "x", "t">>,
              <<"a", ".", "c", "s", "v", " ">> },
     size : {0, MAX_FILE_SIZE - 1, MAX_FILE_SIZE, MAX_FILE_SIZE + 1}]

\* What a drop carries: nothing, one file, or several.
DroppedLists ==
    { <<>> } \cup { <<f>> : f \in Files }
             \cup { <<f, [name |-> <<"a", ".", "c", "s", "v">>, size |-> 0]>> : f \in Files }

RestOfPage ==
    UNCHANGED <<lineVars, fieldVars, errors, submitVars, historyVars, pageVars, mounted, ops,
                blurs, submits>>

DragOver ==
    fileEvents < MaxFileEvents /\ handleDragOver /\ UNCHANGED fileEvents /\ RestOfPage

DragLeave ==
    fileEvents < MaxFileEvents /\ handleDragLeave /\ UNCHANGED fileEvents /\ RestOfPage

Drop ==
    \E files \in DroppedLists, onErrorGiven \in BOOLEAN :
        /\ fileEvents < MaxFileEvents
        /\ fileEvents' = fileEvents + 1
        /\ handleDrop(files, onErrorGiven)
        /\ RestOfPage

ChooseFile ==
    \E f \in Files, onErrorGiven \in BOOLEAN :
        /\ fileEvents < MaxFileEvents
        /\ fileEvents' = fileEvents + 1
        /\ handleFileInput(<<f>>, onErrorGiven)
        /\ RestOfPage

NextDropzone ==
    \/ DragOver
    \/ DragLeave
    \/ Drop
    \/ ChooseFile

SpecDropzone == Mounted /\ [][NextDropzone]_vars

----------------------------------------------------------------------------
(* The bulk lookup page around its dropzone (SpecBulkPage) *)

\* A file is chosen in the page's dropzone.
PageChoose ==
    \E f \in Files :
        /\ fileEvents < MaxFileEvents
        /\ fileEvents' = fileEvents + 1
        /\ handleFileInput(<<f>>, TRUE)
        /\ page' = PageAfter(page, SubSeq(calls', Len(calls) + 1, Len(calls')))
        /\ UNCHANGED <<lineVars, fieldVars, errors, submitVars, historyVars, legacy, mounted,
                       ops, blurs, submits>>

\* Files are dropped on the page's dropzone.
PageDrop ==
    \E files \in DroppedLists :
        /\ fileEvents < MaxFileEvents
        /\ fileEvents' = fileEvents + 1
        /\ handleDrop(files, TRUE)
        /\ page' = PageAfter(page, SubSeq(calls', Len(calls) + 1, Len(calls')))
        /\ UNCHANGED <<lineVars, fieldVars, errors, submitVars, historyVars, legacy, mounted,
                       ops, blurs, submits>>

\* lookupCsv returns rows, rows with row errors, or throws.
LookupResponds ==
    \E k \in 1..Len(page.awaited) :
        \E resp \in { [kind |-> "ok", results |-> <<"row">>, errors |-> <<>>],
                      [kind |-> "ok", results |-> <<"row">>, errors |-> <<"bad id">>],
                      [kind |-> "throw", isError |-> TRUE, message |-> "Failed to fetch"],
                      [kind |-> "throw", isError |-> FALSE, message |-> ""] } :
            /\ page' = lookupSettled(page, k, resp)
            /\ UNCHANGED <<lineVars, fieldVars, errors, submitVars, historyVars, dropVars, legacy,
                           mounted, ops, blurs, submits>>

NextBulkPage ==
    \/ PageChoose
    \/ PageDrop
    \/ LookupResponds

SpecBulkPage == Mounted /\ [][NextBulkPage]_vars

----------------------------------------------------------------------------
(* The legacy invoice form (SpecLegacy) *)

\* The user retypes the form: all filled, a required field blank or empty, an
\* optional field empty.
LegacyEdit ==
    \E f \in {"issuer_name", "invoice_number", "email"}, v \in {<<>>, <<" ">>, <<"x">>} :
        /\ legacy.events < MaxLegacyEvents
        /\ legacy' = [legacy EXCEPT !.form[f] = v, !.events = @ + 1]
        /\ UNCHANGED <<lineVars, fieldVars, errors, submitVars, historyVars, dropVars, page,
                       mounted, ops, blurs, submits>>

\* The user presses the submit button.
LegacySubmit ==
    /\ legacy.events < MaxLegacyEvents
    /\ legacy' = [submitListener(legacy) EXCEPT !.events = @ + 1]
    /\ UNCHANGED <<lineVars, fieldVars, errors, submitVars, historyVars, dropVars, page,
                   mounted, ops, blurs, submits>>

\* The validation pass ends and the listener resumes: it releases isSubmitting
\* and stops, or arms the 2-second timer.
LegacyValidated ==
    \E answers \in { [f \in LegacyFields |-> IF f = g THEN a ELSE "pass"] :
                        g \in {"issuer_name", "email"}, a \in {"pass", "fail", "throw"} } :
        /\ legacy.pc = "validating"
        /\ LET validation == validateFullForm(legacy.form, answers)
           IN  legacy' =
                   IF validation.hasErrors /\ validation.missingRequired # {}
                   THEN [legacy EXCEPT !.validation = validation,
                                       !.isSubmitting = FALSE,
                                       !.pc = "idle"]
                   ELSE [legacy EXCEPT !.validation = validation, !.pc = "delay"]
        /\ UNCHANGED <<lineVars, fieldVars, errors, submitVars, historyVars, dropVars, page,
                       mounted, ops, blurs, submits>>

\* The 2-second timer fires: form.requestSubmit() dispatches a submit event,
\* which the listener handles before the callback returns.
LegacyDelay ==
    /\ legacy.pc = "delay"
    /\ legacy' = submitListener([legacy EXCEPT !.isSubmitting = FALSE,
                                               !.shouldSubmit = TRUE,
                                               !.pc = "idle"])
    /\ UNCHANGED <<lineVars, fieldVars, errors, submitVars, historyVars, dropVars, page,
                   mounted, ops, blurs, submits>>

NextLegacy ==
    \/ LegacyEdit
    \/ LegacySubmit
    \/ LegacyValidated
    \/ LegacyDelay

SpecLegacy == Mounted /\ [][NextLegacy]_vars

----------------------------------------------------------------------------
(* The fields of the form and their remote validation (SpecFields) *)

Init == Mounted \/ Filled

RestOfFields == UNCHANGED <<lineVars, submitVars, dropVars, pageVars, mounted, submits>>

ChangeField ==
    \E f \in Fields : \E typed \in FieldInputs(f) :
        /\ mounted
        /\ ops < MaxEdits
        /\ Tick
        /\ handleChange(f, typed)
        /\ UNCHANGED blurs
        /\ RestOfFields

BlurField ==
    \E f \in BlurFields :
        /\ mounted
        /\ blurs < MaxBlurs
        /\ blurs' = blurs + 1
        /\ handleBlur(f)
        /\ UNCHANGED ops
        /\ RestOfFields

TimerFires ==
    \E b \in BackendFields :
        /\ Len(requests) < MaxInflight
        /\ timerFires(b)
        /\ UNCHANGED <<ops, blurs>>
        /\ RestOfFields

FieldResponds ==
    \E k \in 1..MaxInflight, resp \in FieldResponses :
        /\ fieldResponse(k, resp)
        /\ UNCHANGED <<ops, blurs>>
        /\ RestOfFields

NextFields ==
    \/ ChangeField
    \/ BlurField
    \/ TimerFires
    \/ FieldResponds

SpecFields == Init /\ [][NextFields]_vars

\* The same form when an armed timer is eventually run by the event loop and
\* every /validate_field request is eventually answered or fails.
FairFields == SpecFields /\ WF_vars(TimerFires) /\ WF_vars(FieldResponds)

----------------------------------------------------------------------------
(* The fields of a form that may unmount (SpecUnmount) *)

\* A cleanup that leaves the timers armed.
KeepTimers(timers) == timers

\* The cleanup effect: clearTimeout on every handle of validationTimers.current.
clearTimers(timers) == [b \in DOMAIN timers |-> <<>>]

\* The form unmounts: React runs the cleanup of its effects.  Requests in
\* flight are not aborted and still settle.
Unmount ==
    /\ mounted
    /\ mounted' = FALSE
    /\ validationTimers' = clearTimers(validationTimers)
    /\ UNCHANGED <<lineVars, values, touchedFields, fieldValidationStatus, requests, errors,
                   submitVars, historyVars, dropVars, pageVars, ops, blurs, submits>>

NextUnmount ==
    \/ ChangeField
    \/ BlurField
    \/ TimerFires
    \/ FieldResponds
    \/ Unmount

SpecUnmount == Init /\ [][NextUnmount]_vars

----------------------------------------------------------------------------
(* Submission of the form (Spec) *)

\* The fields the user still touches around a submission: one with remote
\* validation, one required without it, and the optional remarks.
LateFields == {"sellerRegNo", "buyerAddress", "remarks"}

LateChange ==
    \E f \in LateFields : \E typed \in FieldInputs(f) :
        /\ ops < MaxLateEdits
        /\ Tick
        /\ handleChange(f, typed)
        /\ UNCHANGED blurs
        /\ RestOfFields

LateBlur ==
    \E f \in LateFields \cap BlurFields :
        /\ blurs < MaxLateBlurs
        /\ blurs' = blurs + 1
        /\ handleBlur(f)
        /\ UNCHANGED ops
        /\ RestOfFields

LateTimer ==
    \E b \in BackendFields :
        /\ Len(requests) < MaxLateInflight
        /\ timerFires(b)
        /\ UNCHANGED <<ops, blurs>>
        /\ RestOfFields

LateFieldResponse ==
    \E k \in 1..MaxLateInflight, resp \in FieldResponses :
        /\ fieldResponse(k, resp)
        /\ UNCHANGED <<ops, blurs>>
        /\ RestOfFields

EditRow ==
    \E i \in 1..MaxRows, f \in {"description", "qty", "unitPrice"} :
        \E v \in (IF f = "description" THEN DescTexts ELSE CellTexts) :
            /\ ops < MaxLateEdits
            /\ Tick
            /\ handleItemChange(i, f, v)
            /\ RestOfForm

ClickSubmit ==
    /\ SubmitEnabled
    /\ submits < MaxSubmits
    /\ submits' = submits + 1
    /\ handleSubmit
    /\ UNCHANGED <<dropVars, pageVars, mounted, ops, blurs>>

ValidateResponds ==
    \E resp \in ValidateResponses :
        /\ validateResponse(resp)
        /\ UNCHANGED <<lineVars, fieldVars, errors, historyVars, dropVars, pageVars, mounted, ops, blurs, submits>>

PdfResponds ==
    \E resp \in PdfResponses :
        /\ pdfResponse(resp)
        /\ UNCHANGED <<lineVars, fieldVars, errors, historyVars, dropVars, pageVars, mounted, ops, blurs, submits>>

Next ==
    \/ LateChange
    \/ LateBlur
    \/ LateTimer
    \/ LateFieldResponse
    \/ EditRow
    \/ ClickSubmit
    \/ ValidateResponds
    \/ PdfResponds

Spec == Init /\ [][Next]_vars

\* The same form when both remote calls of a submission eventually return or
\* fail.
FairSpec == Spec /\ WF_vars(ValidateResponds) /\ WF_vars(PdfResponds)

----------------------------------------------------------------------------
(* Claims about the line-items table (SpecLines) *)

\* C5: the raw list and the numeric list have the same length and correspond
\* index by index: description and taxRate are equal, qty and unitPrice are
\* the parse of the raw text.
C5_RawNumericCorrespondence ==
    /\ Len(rawItems) = Len(items)
    /\ \A i \in 1..Len(items) : items[i] = ToLineItem(rawItems[i])

\* C6: a list this component itself produced (edit, blur, add, remove) is not
\* taken for an external change when the parent echoes it back: the raw list
\* is exactly the one the handler set (text typed into a cell is kept as
\* typed) and the ref is the echoed list.
C6_OwnEchoKeepsRaw ==
    [][/\ \A i \in 1..MaxRows, f \in {"qty", "unitPrice"}, v \in CellTexts :
            handleItemChange(i, f, v)
                => /\ rawItems' = [rawItems EXCEPT ![i] = [@ EXCEPT ![f] = v]]
                   /\ lastItemsRef' = items'
       /\ \A i \in 1..MaxRows, v \in DescTexts :
            handleItemChange(i, "description", v)
                => /\ rawItems' = [rawItems EXCEPT ![i] = [@ EXCEPT !["description"] = v]]
                   /\ lastItemsRef' = items'
       /\ \A i \in 1..MaxRows, f \in {"qty", "unitPrice"} :
            handleNumericBlur(i, f)
                => /\ rawItems' = [rawItems EXCEPT ![i] = [@ EXCEPT ![f] = BlurText(@)]]
                   /\ lastItemsRef' = items'
       /\ handleAddRow
            => /\ rawItems' = Append(rawItems, DefaultRaw)
               /\ lastItemsRef' = items'
       /\ \A i \in 1..MaxRows :
            (handleRemoveRow(i) /\ Len(items) > 1)
                => /\ rawItems' = RemoveAt(rawItems, i)
                   /\ lastItemsRef' = items'
      ]_vars

\* C6 witness: a partial decimal typed into a qty cell is still in the raw
\* buffer after the echo, with the numeric model holding its parse.
C6_Witness ==
    \E i \in 1..Len(rawItems) :
        /\ rawItems[i].qty = <<"1", ".">>
        /\ Len(items) = Len(rawItems)
        /\ items[i].qty = Scale
        /\ lastItemsRef = items

\* C7: after the parent replaces the items list by a list this component did
\* not produce, every raw buffer holds the string form of the new numeric
\* value, except that a qty / unitPrice cell that was empty and whose new
\* value is 0 stays empty.
C7_ExternalResync ==
    [][\A l \in ExternalLists :
          (ExternalReplace(l) /\ l # lastItemsRef)
              => /\ Len(rawItems') = Len(l)
                 /\ \A i \in 1..Len(l) :
                       /\ rawItems'[i].description = l[i].description
                       /\ rawItems'[i].taxRate = l[i].taxRate
                       /\ rawItems'[i].qty =
                             IF i <= Len(rawItems) /\ Trim(rawItems[i].qty) = <<>> /\ l[i].qty = 0
                             THEN <<>> ELSE NumToString(l[i].qty)
                       /\ rawItems'[i].unitPrice =
                             IF i <= Len(rawItems) /\ Trim(rawItems[i].unitPrice) = <<>>
                                                   /\ l[i].unitPrice = 0
                             THEN <<>> ELSE NumToString(l[i].unitPrice)
      ]_vars

----------------------------------------------------------------------------
(* Claims about submission (Spec) *)

\* C1: a submit attempt made while a required field is empty or fails its
\* local validator for its current value, or while the line items are
\* invalid, ends with the submit message and makes no network call, neither
\* remote validation nor artifact generation.
C1_InvalidSubmitMakesNoCall ==
    attempt.localInvalid
        => /\ attempt.validateCalls = 0
           /\ attempt.generateCalls = 0
           /\ submitError = PleaseFix

\* C2: when remote validation answered 2xx and artifact generation then
\* failed (non-2xx or network error), the submission still completes:
\* onValidated is called with the validation result (compliant, issues,
\* normalized) and an undefined artifact URL, and the failure is recorded as
\* the submit-level message.
C2_FailedPdfKeepsResult ==
    (attempt.vresp.kind = "ok" /\ attempt.presp.kind \in {"http", "neterr"})
        => /\ delivered.called
           /\ delivered.compliant = attempt.vresp.result.compliant
           /\ delivered.issues = attempt.vresp.result.issues
           /\ delivered.normalized = attempt.vresp.result.normalized
           /\ delivered.pdfUrl = Undefined
           /\ submitError =
                 (IF attempt.presp.kind = "neterr" THEN <<attempt.presp.msg>>
                  ELSE IF attempt.presp.error # "" THEN <<attempt.presp.error>>
                  ELSE <<"PDF generation failed">>)
           /\ submitError # NoMessage
           /\ ~isSubmitting
           /\ ~isGeneratingPdf

\* C2 witness: a compliant result delivered after the artifact call was
\* refused by the server.
C2_Witness ==
    /\ attempt.vresp.kind = "ok"
    /\ attempt.vresp.result.compliant
    /\ attempt.presp.kind = "http"
    /\ attempt.presp.error # ""
    /\ delivered.called

\* C3: a non-2xx answer of remote validation is a hard failure: the server's
\* error, or the first details entry when there is one, is the submit-level
\* message, artifact generation is not called for the attempt and onValidated
\* is not invoked.
C3_ValidateFailureStops ==
    attempt.vresp.kind = "http"
        => /\ Len(attempt.vresp.details) > 0 => submitError = <<attempt.vresp.details[1]>>
           /\ (attempt.vresp.details = <<>> /\ attempt.vresp.error # "")
                 => submitError = <<attempt.vresp.error>>
           /\ submitError # NoMessage
           /\ attempt.generateCalls = 0
           /\ attempt.presp.kind = "none"
           /\ ~delivered.called
           /\ pending = Idle
           /\ ~isSubmitting

\* C3 witness: a refused validation whose answer has both an error and details.
C3_Witness ==
    /\ attempt.vresp.kind = "http"
    /\ attempt.vresp.error # ""
    /\ Len(attempt.vresp.details) > 0
    /\ submitError = <<attempt.vresp.details[1]>>

----------------------------------------------------------------------------
(* Claims about remote field validation (SpecFields) *)

\* C4: a burst of edits and blurs of one field inside one debounce window
\* leads to at most one request (one live timer per field), and the request
\* carries the value the field held at the last edit before the timer fired.
C4_OneRequestWithLastEdit ==
    /\ \A b \in BackendFields : Len(validationTimers[b]) <= 1
    /\ \A k \in 1..Len(requests) : requests[k].value = requests[k].current

\* C8 as stated: the status of a field becomes validating only from pending,
\* and valid or invalid only from validating.
C8_StrictStateMachine ==
    [][\A b \in BackendFields :
          fieldValidationStatus'[b] # fieldValidationStatus[b]
              => /\ fieldValidationStatus'[b] = "validating"
                    => fieldValidationStatus[b] = "pending"
                 /\ fieldValidationStatus'[b] \in {"valid", "invalid"}
                    => fieldValidationStatus[b] = "validating"
      ]_vars

\* C8 amended: the status of a field becomes validating only when the field's
\* debounce timer fires and valid or invalid only when an answer for the field
\* is applied; as long as no validation of the field was started while an
\* earlier request for it was outstanding, validating is entered from pending
\* and valid or invalid from validating.
C8_StateMachineWithoutOverlap ==
    [][\A b \in BackendFields :
          fieldValidationStatus'[b] # fieldValidationStatus[b]
              => /\ fieldValidationStatus'[b] = "validating"
                    => /\ Len(validationTimers'[b]) < Len(validationTimers[b])
                       /\ Len(requests') = Len(requests) + 1
                       /\ overlap[b] \/ fieldValidationStatus[b] = "pending"
                 /\ fieldValidationStatus'[b] \in {"valid", "invalid"}
                    => /\ Len(requests') < Len(requests)
                       /\ overlap[b] \/ fieldValidationStatus[b] = "validating"
      ]_vars

\* C8 witness: a field went through a whole cycle, with no overlap, and its
\* status is the one of the answer.
C8_Witness ==
    \E b \in BackendFields :
        /\ fieldValidationStatus[b] \in {"valid", "invalid"}
        /\ lastWrite[b].by = "response"
        /\ ~lastWrite[b].late
        /\ ~overlap[b]

\* C9: once the status of a field is valid or invalid, an edit of the field's
\* value moves the status back to pending.
C9_EditResetsStatus ==
    [][\A f \in RemoteFields :
          (/\ values'[f] # values[f]
           /\ fieldValidationStatus[getBackendFieldName(f)] \in {"valid", "invalid"})
              => fieldValidationStatus'[getBackendFieldName(f)] = "pending"
      ]_vars

\* C10: the answers of two requests of one field that were outstanding
\* together are both applied by overwrite: after an answer is applied, the
\* status and the error of the field are those of that answer, whether or not
\* a request issued later was answered before it.
C10_LastResponseWins ==
    \A b \in BackendFields :
        lastWrite[b].by = "response"
            => /\ fieldValidationStatus[b] = ResponseStatus(lastWrite[b].resp)
               /\ errors[getUIFieldName(b)] = ResponseError(lastWrite[b].resp)

\* C10 witness: the answer applied last belongs to a request that a request
\* issued later had overtaken, and the field shows its rejection.
C10_Witness ==
    \E b \in BackendFields :
        /\ lastWrite[b].by = "response"
        /\ lastWrite[b].late
        /\ lastWrite[b].resp.status = "fail"
        /\ fieldValidationStatus[b] = "invalid"


\* C11: a blur of a field whose current value fails its local rule records the
\* local error and, for that blur, starts no debounce timer, issues no request
\* and leaves the remote status alone.
C11_LocallyInvalidBlurStops ==
    [][\A f \in BlurFields :
          (/\ handleBlur(f)
           /\ \/ f \in RequiredFields /\ Trim(values[f]) = <<>>
              \/ f = "sellerRegNo" /\ Len(DigitsOnly(values[f])) # 13
              \/ f \in {"invoiceDate", "dueDate"} /\ Trim(values[f]) # <<>>
                                                  /\ ~(/\ DateRegexTest(values[f])
                                                        /\ IsCalendarDate(values[f])))
              => /\ Truthy(errors'[f])
                 /\ touchedFields'[f]
                 /\ validationTimers' = validationTimers
                 /\ requests' = requests
                 /\ fieldValidationStatus' = fieldValidationStatus
      ]_vars

\* C11 witness: a field with remote validation was left holding a value that
\* fails its local rule: its error is stored, no timer is armed and nothing
\* is in flight.
C11_Witness ==
    \E f \in RemoteFields :
        /\ lastWrite[getBackendFieldName(f)].by = "blur"
        /\ Trim(values[f]) # <<>>
        /\ Truthy(errors[f])
        /\ validationTimers[getBackendFieldName(f)] = <<>>
        /\ requests = <<>>


\* C12: when the timer of a field fires the status is validating and a request
\* for the field is in flight; an answer whose status is 'pass' leaves the
\* status valid and the stored error cleared; any other answer leaves it
\* invalid with a non-empty stored error; a network failure leaves it invalid
\* with the request-failed message.
C12_AnswerSetsStatusAndError ==
    \A b \in BackendFields :
        LET resp == lastWrite[b].resp
            e    == errors[getUIFieldName(b)]
        IN  /\ lastWrite[b].by = "timer"
                => /\ fieldValidationStatus[b] = "validating"
                   /\ \E k \in 1..Len(requests) : requests[k].field = b
            /\ (lastWrite[b].by = "response" /\ resp.kind = "ok" /\ resp.status = "pass")
                => /\ fieldValidationStatus[b] = "valid"
                   /\ e = Undefined
            /\ (lastWrite[b].by = "response" /\ resp.kind = "ok" /\ resp.status # "pass")
                => /\ fieldValidationStatus[b] = "invalid"
                   /\ e \notin {Undefined, ""}
            /\ (lastWrite[b].by = "response" /\ resp.kind = "http")
                => /\ fieldValidationStatus[b] = "invalid"
                   /\ e \notin {Undefined, ""}
            /\ (lastWrite[b].by = "response" /\ resp.kind = "neterr")
                => /\ fieldValidationStatus[b] = "invalid"
                   /\ e = "validation.requestFailed"


\* C13: formIsValid is the conjunction of the five section flags and of 'no
\* entry of the errors map is truthy'; it is false whenever a required field
\* is blank, and true only when every section is valid.
C13_FormValidity ==
    LET sv == sectionValidity(values, errors, fieldValidationStatus, items)
    IN  /\ formIsValid <=> /\ sv.seller
                           /\ sv.buyer
                           /\ sv.invoiceDetails
                           /\ sv.lineItems
                           /\ sv.totals
                           /\ \A k \in ErrorKeys : errors[k] \in {Undefined, ""}
        /\ (\E f \in RequiredFields : Trim(values[f]) = <<>>) => ~formIsValid
        /\ formIsValid
              => /\ \A f \in RequiredFields : Trim(values[f]) # <<>>
                 /\ \A b \in BackendFields : fieldValidationStatus[b] # "invalid"
                 /\ Len(items) > 0
                 /\ \A i \in 1..Len(items) :
                       /\ Trim(items[i].description) # <<>>
                       /\ items[i].qty > 0
                       /\ items[i].unitPrice >= 0

\* C13 witness: a required field was edited to blank before it was ever
\* left, so no error is stored for it; every other required field is filled
\* and the errors map is clean, yet the form is not valid.
C13_Witness ==
    /\ ops > 0
    /\ \A k \in ErrorKeys : errors[k] = Undefined
    /\ \E f \in RequiredFields :
          /\ values[f] = <<>>
          /\ \A g \in RequiredFields \ {f} : Trim(values[g]) # <<>>
    /\ ~formIsValid


\* C14: the line-item list never has fewer than one row: removing row i while
\* more than one row exists removes index i from the raw list and from the
\* numeric list, and removing the only row changes neither list.
C14_RemoveKeepsOneRow ==
    /\ [](Len(items) >= 1 /\ Len(rawItems) >= 1)
    /\ [][\A i \in 1..MaxRows :
             handleRemoveRow(i)
                 => IF Len(items) > 1
                    THEN /\ Len(items') = Len(items) - 1
                         /\ Len(rawItems') = Len(rawItems) - 1
                         /\ \A j \in 1..Len(items') :
                               /\ items'[j] = IF j < i THEN items[j] ELSE items[j + 1]
                               /\ rawItems'[j] = IF j < i THEN rawItems[j] ELSE rawItems[j + 1]
                    ELSE items' = items /\ rawItems' = rawItems
        ]_vars

\* C14 witness: the table is back to a single row, the one that was typed
\* second, after the first of two rows was removed.
C14_Witness ==
    /\ ops = MaxLineOps
    /\ Len(items) = 1
    /\ Len(rawItems) = 1
    /\ items[1] = [DefaultItem EXCEPT !.description = <<"D">>]
    /\ rawItems[1] = [DefaultRaw EXCEPT !.description = <<"D">>]


\* C15: a blur of a qty / unitPrice cell leaves a blank raw buffer empty and
\* replaces any other raw buffer by the canonical string of its parsed number;
\* it changes neither the numeric model nor the totals, and a second blur of
\* the cell would leave the raw buffer as the first one left it.
C15_BlurNormalisesRawOnly ==
    [][\A i \in 1..MaxRows, f \in {"qty", "unitPrice"} :
          handleNumericBlur(i, f)
              => /\ rawItems'[i][f] = IF Trim(rawItems[i][f]) = <<>>
                                      THEN <<>>
                                      ELSE NumToString(ParseCell(rawItems[i][f]))
                 /\ items' = items
                 /\ computeTotals(items') = computeTotals(items)
                 /\ (IF Trim(rawItems'[i][f]) = <<>>
                     THEN <<>>
                     ELSE NumToString(ParseCell(rawItems'[i][f]))) = rawItems'[i][f]
      ]_vars


\* C16: an edit of cell (index, field) with text v sets that raw cell to v as
\* typed, sets the numeric cell to the parse of v (blank is 0, parseFloat
\* otherwise, NaN is 0), leaves every other cell of both lists as it was, and
\* the parent holds the updated numeric list after the step.
C16_EditTouchesOneCell ==
    [][\A i \in 1..MaxRows, f \in {"description", "qty", "unitPrice"} :
          \A v \in (IF f = "description" THEN DescTexts ELSE CellTexts) :
              handleItemChange(i, f, v)
                  => /\ Len(rawItems') = Len(rawItems)
                     /\ Len(items') = Len(items)
                     /\ rawItems'[i][f] = v
                     /\ items'[i][f] =
                           IF f = "description" THEN v
                           ELSE IF Trim(v) = <<>> \/ ParseFloat(v).nan THEN 0
                           ELSE ParseFloat(v).val
                     /\ \A j \in 1..Len(items) :
                           \A g \in {"description", "qty", "unitPrice", "taxRate"} :
                               (j # i \/ g # f)
                                   => /\ rawItems'[j][g] = rawItems[j][g]
                                      /\ items'[j][g] = items[j][g]
      ]_vars


\* C17: every line item of the numeric model has qty >= 0 and unitPrice >= 0,
\* whatever text is typed into the qty and unitPrice cells.
C17_NonNegativeNumbers ==
    \A i \in 1..Len(items) : items[i].qty >= 0 /\ items[i].unitPrice >= 0


\* C18: subtotal is the sum of qty x unitPrice, taxTotal the sum of
\* qty x unitPrice x taxRate / 100 and grandTotal their sum, each the exact
\* sum rounded once, at the aggregate, to 2 decimals with halves rounded away
\* from zero; rows (2, 500, 10%) and (1, 300, 8%) give 1300.00, 124.00 and
\* 1424.00.  Totals are in cents, sums in units of 10^-8.
C18_TotalsRoundedOnceHalfAway ==
    LET amount(i) == items[i].qty * items[i].unitPrice
        HalfAway(weight(_)) ==
            LET whole == SumSeq([i \in 1..Len(items) |-> (amount(i) \div Cent) * weight(i)])
                rest  == SumSeq([i \in 1..Len(items) |-> (amount(i) % Cent) * weight(i)])
                low   == Cent * (whole % 100) + rest
                floor == (whole \div 100) + (low \div (100 * Cent))
                twice == 2 * (low % (100 * Cent))
            IN  IF twice > 100 * Cent THEN floor + 1
                ELSE IF twice < 100 * Cent THEN floor
                ELSE IF floor >= 0 THEN floor + 1
                ELSE floor
        One(i)  == 100
        Rate(i) == items[i].taxRate
        Both(i) == 100 + items[i].taxRate
        example == << [description |-> <<>>, qty |-> 2 * Scale, unitPrice |-> 500 * Scale,
                       taxRate |-> 10],
                      [description |-> <<>>, qty |-> Scale, unitPrice |-> 300 * Scale,
                       taxRate |-> 8] >>
    IN  /\ computeTotals(items) = [subtotal   |-> HalfAway(One),
                                   taxTotal   |-> HalfAway(Rate),
                                   grandTotal |-> HalfAway(Both)]
        /\ items = example
              => computeTotals(items) = [subtotal   |-> 130000,
                                         taxTotal   |-> 12400,
                                         grandTotal |-> 142400]


\* C19: within one submission the artifact-generation endpoint is called only
\* after remote validation was called and answered 2xx, and onValidated is
\* invoked only after the artifact call has finished, whatever its outcome.
C19_SubmissionOrder ==
    /\ attempt.generateCalls = 1
          => attempt.validateCalls = 1 /\ attempt.vresp.kind = "ok"
    /\ pending.pc = "validate"
          => /\ attempt.validateCalls = 1
             /\ attempt.vresp.kind = "none"
             /\ attempt.generateCalls = 0
             /\ ~delivered.called
    /\ pending.pc = "generate"
          => /\ attempt.vresp.kind = "ok"
             /\ attempt.presp.kind = "none"
             /\ ~delivered.called
    /\ delivered.called
          => /\ attempt.vresp.kind = "ok"
             /\ attempt.generateCalls = 1
             /\ attempt.presp.kind \in {"ok", "http", "neterr"}
             /\ pending = Idle

\* C19 witness: a submission went through all its steps and was delivered
\* with an artifact.
C19_Witness ==
    /\ attempt.validateCalls = 1
    /\ attempt.vresp.kind = "ok"
    /\ attempt.generateCalls = 1
    /\ attempt.presp.kind = "ok"
    /\ delivered.called
    /\ delivered.pdfUrl # Undefined

\* C20: when the 2xx answer of remote validation carries issues, the first
\* one is the submit-level message and the submission goes on: the artifact
\* call is made and, once it has finished, the result is delivered with the
\* issues (the message stays unless the artifact call itself failed).
C20_IssuesDoNotBlock ==
    LET issues == attempt.vresp.result.issues
    IN  (attempt.vresp.kind = "ok" /\ Len(issues) > 0)
            => /\ attempt.generateCalls = 1
               /\ pending.pc = "generate"
                     => submitError = <<issues[1]>> /\ isGeneratingPdf
               /\ pending.pc # "generate"
                     => /\ delivered.called
                        /\ delivered.issues = issues
                        /\ attempt.presp.kind = "ok" => submitError = <<issues[1]>>

\* C20 witness: a result with issues was delivered with its artifact, the
\* first issue showing as the submit-level message.
C20_Witness ==
    /\ attempt.vresp.kind = "ok"
    /\ Len(attempt.vresp.result.issues) > 0
    /\ attempt.presp.kind = "ok"
    /\ delivered.called
    /\ delivered.pdfUrl # Undefined
    /\ submitError = <<attempt.vresp.result.issues[1]>>


\* C21: the step at which a submission attempt fails (the final local pass
\* stops it, or /manual-invoice/validate answers non-2xx or cannot be
\* reached) leaves every field value and the line items as they were, and
\* leaves the form released: no call is awaited, neither busy flag is set, so
\* the submit button is enabled exactly when the form is valid.  (The button
\* is disabled exactly when the local pass would stop the attempt, so the
\* failing steps a click can reach are the two answers of the service.)
C21_FailedAttemptKeepsData ==
    [][ ( \/ submits' = submits + 1 /\ attempt'.validateCalls = 0
          \/ pending.pc = "validate" /\ attempt'.vresp.kind \in {"http", "neterr"} )
        => /\ values' = values
           /\ items' = items
           /\ rawItems' = rawItems
           /\ pending' = Idle
           /\ ~isSubmitting'
           /\ ~isGeneratingPdf'
           /\ submitError' # NoMessage
           /\ ~delivered'.called
           /\ SubmitEnabled' <=> formIsValid' ]_vars

\* C21 witness: an attempt failed on the network and the form, still holding
\* what was typed, can be submitted again.
C21_Witness ==
    /\ attempt.validateCalls = 1
    /\ attempt.vresp.kind = "neterr"
    /\ pending = Idle
    /\ submitError = <<"Failed to fetch">>
    /\ values["sellerName"] = <<"A">>
    /\ Len(items) = 1 /\ items[1].description = <<"D">>
    /\ SubmitEnabled


----------------------------------------------------------------------------
(* Claims about the CSV dropzone (SpecDropzone) *)

\* C22: for the file a selection or a drop hands to the component (the first
\* of the list), the calls made depend on that file alone: a name that does
\* not end in .csv whatever the case of its letters, or a size above 5 MB,
\* gives one onError call with the message of the failed check and no
\* onFileSelect call; any other file gives onError('') and then
\* onFileSelect(file).  (onError is optional: left out, its call is skipped.)
\* Dragging over or away makes no call.
C22_FileOutcome ==
    [][ /\ (fileEvents' = fileEvents + 1 /\ handled'.given)
           => LET file    == handled'.file
                  n       == Len(file.name)
                  csvName == /\ n >= 4
                             /\ file.name[n - 3] = "."
                             /\ file.name[n - 2] \in {"c", "C"}
                             /\ file.name[n - 1] \in {"s", "S"}
                             /\ file.name[n] \in {"v", "V"}
                  tooBig  == file.size > 5 * 1024 * 1024
                  message == IF ~csvName THEN <<"bulk.onlyCsv">>
                             ELSE <<"bulk.fileSizeExceeded", <<"5">>>>
                  toError == IF ~handled'.onError THEN <<>>
                             ELSE IF ~csvName \/ tooBig
                             THEN <<[fn |-> "onError", message |-> message]>>
                             ELSE <<[fn |-> "onError", message |-> <<>>]>>
                  toSelect == IF ~csvName \/ tooBig THEN <<>>
                              ELSE <<[fn |-> "onFileSelect", file |-> file]>>
              IN  calls' = calls \o toError \o toSelect
        /\ (fileEvents' = fileEvents \/ ~handled'.given) => calls' = calls ]_vars

\* C22 witness: a text file was refused, then a CSV of exactly 5 MB with an
\* upper-case extension was accepted and the earlier error cleared.
C22_Witness ==
    /\ Len(calls) = 3
    /\ calls[1] = [fn |-> "onError", message |-> <<"bulk.onlyCsv">>]
    /\ calls[2] = [fn |-> "onError", message |-> <<>>]
    /\ calls[3] = [fn |-> "onFileSelect",
                   file |-> [name |-> <<"a", ".", "C", "S", "V">>, size |-> MAX_FILE_SIZE]]


----------------------------------------------------------------------------
(* Claims about the debounce timers (SpecFields) *)

\* C23: a field never has more than one armed debounce timer; arming one
\* leaves it as the field's only timer, the earlier one being cancelled; and
\* every /validate_field request is issued by a timer that was still armed,
\* which that firing disarms: a cancelled timer issues nothing.
C23_OneTimerPerField ==
    /\ [](\A b \in BackendFields : Len(validationTimers[b]) <= 1)
    /\ [][ /\ \A b \in BackendFields :
                 validationTimers'[b] # validationTimers[b]
                    => \/ /\ blurs' = blurs + 1
                          /\ Len(validationTimers'[b]) = 1
                          /\ validationTimers'[b][1] =
                                 WireValue(getUIFieldName(b), values[getUIFieldName(b)])
                       \/ /\ Len(requests') = Len(requests) + 1
                          /\ validationTimers[b] # <<>>
                          /\ validationTimers'[b] = <<>>
           /\ Len(requests') > Len(requests)
                 => LET r == requests'[Len(requests')]
                    IN  /\ validationTimers[r.field] # <<>>
                        /\ r.value = Head(validationTimers[r.field])
                        /\ validationTimers'[r.field] = <<>>
                        /\ SubSeq(requests', 1, Len(requests)) = requests ]_vars

\* C23 witness: the seller name was left twice and edited; its one timer has
\* fired with the value of the last arming, and no timer is left.
C23_Witness ==
    /\ blurs = 2
    /\ ops = 1
    /\ \A f \in Fields : touchedFields[f] <=> f = "sellerName"
    /\ values["sellerName"] = <<" ", "B">>
    /\ Len(requests) = 1
    /\ requests[1].field = "issuer_name"
    /\ requests[1].value = <<" ", "B">>
    /\ \A b \in BackendFields : validationTimers[b] = <<>>


\* C24: an edit that empties a field starts no remote validation and leaves
\* the field's stored validation status and stored error as they were.
C24_EmptyEditLeavesStatusAndError ==
    [][ \A f \in Fields :
           (ops' = ops + 1 /\ values'[f] # values[f] /\ Trim(values'[f]) = <<>>)
              => /\ errors'[f] = errors[f]
                 /\ fieldValidationStatus' = fieldValidationStatus
                 /\ validationTimers' = validationTimers
                 /\ requests' = requests ]_vars


----------------------------------------------------------------------------
(* Claims about section validity (SpecFields) *)

\* C25: the invoice-details flag is true exactly when the invoice date and
\* the invoice number are non-empty, carry no error and have no invalid
\* status, and the due date is empty or a well-formed date.
C25_InvoiceDetailsFlag ==
    LET due == values["dueDate"]
    IN  sectionValidity(values, errors, fieldValidationStatus, items).invoiceDetails
           <=> /\ Trim(values["invoiceDate"]) # <<>>
               /\ Trim(values["invoiceNo"]) # <<>>
               /\ ~Truthy(errors["invoiceDate"])
               /\ ~Truthy(errors["invoiceNo"])
               /\ fieldValidationStatus["date"] # "invalid"
               /\ fieldValidationStatus["invoice_number"] # "invalid"
               /\ \/ Trim(due) = <<>>
                  \/ DateRegexTest(due) /\ IsCalendarDate(due)


\* C26: when /validate_field rejects a field (its status becomes invalid and
\* an error is stored), the section that owns the field becomes invalid and
\* no flag of another section changes; the answer writes nothing but that one
\* field's status and error, so the value stays as typed and open to edits.
C26_RejectionStaysInSection ==
    [][ \A b \in BackendFields :
           ( /\ Len(requests') = Len(requests) - 1
             /\ lastWrite'[b].by = "response"
             /\ lastWrite'[b].resp.kind # "none"
             /\ \A c \in BackendFields \ {b} : lastWrite'[c] = lastWrite[c]
             /\ fieldValidationStatus'[b] = "invalid" )
           => LET owner  == CASE b \in {"issuer_name", "issuer_id", "address"} -> "seller"
                              [] b = "buyer"                                 -> "buyer"
                              [] OTHER                                       -> "invoiceDetails"
                  before == sectionValidity(values, errors, fieldValidationStatus, items)
                  after  == sectionValidity(values', errors', fieldValidationStatus', items')
              IN  /\ ~after[owner]
                  /\ \A s \in DOMAIN after : s # owner => after[s] = before[s]
                  /\ errors'[getUIFieldName(b)] # Undefined
                  /\ \A k \in ErrorKeys \ {getUIFieldName(b)} : errors'[k] = errors[k]
                  /\ \A c \in BackendFields \ {b} :
                        fieldValidationStatus'[c] = fieldValidationStatus[c]
                  /\ values' = values
                  /\ touchedFields' = touchedFields
                  /\ validationTimers' = validationTimers ]_vars

\* C26 witness: the seller name of a filled form was rejected: the seller
\* section is invalid, the buyer and invoice-details sections still valid.
C26_Witness ==
    LET sv == sectionValidity(values, errors, fieldValidationStatus, items)
    IN  /\ lastWrite["issuer_name"].by = "response"
        /\ fieldValidationStatus["issuer_name"] = "invalid"
        /\ errors["sellerName"] = "Unknown issuer"
        /\ values["sellerName"] = <<"A">>
        /\ ~sv.seller
        /\ sv.buyer
        /\ sv.invoiceDetails
        /\ sv.lineItems


----------------------------------------------------------------------------
(* Claims about the displayed amounts (SpecLines) *)

\* C27: in every rendered state the amount shown on a row, the product of
\* the parses of its raw qty and raw unitPrice, is the product of the qty and
\* unitPrice of the same row of the numeric list the totals are computed from.
C27_DisplayedAmountIsModelAmount ==
    /\ Len(rawItems) = Len(items)
    /\ \A i \in 1..Len(rawItems) :
          ParseCell(rawItems[i].qty) * ParseCell(rawItems[i].unitPrice)
             = items[i].qty * items[i].unitPrice


----------------------------------------------------------------------------
(* Claims about the payload (Spec) *)

\* C28: the body sent to /manual-invoice/validate is built from the field
\* values and line items as they were when submit was triggered; the body sent
\* to /manual-invoice/generate is that same body; and the form data and the
\* remarks in the result handed to onValidated are those of the same moment,
\* whatever the user edits while the calls are in flight.
C28_PayloadIsSnapshot ==
    LET at == attempt.clicked
    IN  /\ attempt.validateCalls = 1
              => /\ at.taken
                 /\ attempt.validateBody = BuildPayload(at.values, at.items, at.totals)
        /\ attempt.generateCalls = 1
              => attempt.generateBody = attempt.validateBody
        /\ pending.pc \in {"validate", "generate"}
              => pending.payload = attempt.validateBody
        /\ delivered.called
              => /\ delivered.formData = BuildFormData(at.values, at.items)
                 /\ delivered.remarks = Optional(at.values["remarks"])

\* C28 witness: a result was delivered after the user changed a field or a
\* row while the calls were in flight.
C28_Witness ==
    /\ delivered.called
    /\ attempt.generateCalls = 1
    /\ \/ values # attempt.clicked.values
       \/ items # attempt.clicked.items


\* C29: every string of the payload sent on submit is trimmed: the seller and
\* buyer names and addresses, the invoice number, the remarks and every item
\* description carry no leading or trailing whitespace.
C29_PayloadStringsTrimmed ==
    attempt.validateCalls = 1
       => LET p == attempt.validateBody
          IN  /\ \A k \in {"sellerName", "sellerAddress", "buyerName", "buyerAddress",
                           "invoiceNo"} : p[k] = Trim(p[k])
              /\ p.remarks.defined => p.remarks.text = Trim(p.remarks.text)
              /\ \A i \in 1..Len(p.items) : p.items[i].description = Trim(p.items[i].description)


----------------------------------------------------------------------------
(* Claims about unmounting (SpecUnmount) *)

\* C31: when the form unmounts every armed debounce timer is cleared: once
\* unmounted no timer is armed, and no /validate_field request is issued any
\* more, the requests in flight only settling.
C31_UnmountClearsTimers ==
    /\ [](~mounted => \A b \in BackendFields : validationTimers[b] = <<>>)
    /\ [][ ~mounted' => Len(requests') <= Len(requests) ]_vars

\* C31 witness: the form unmounted while the seller name's timer was armed:
\* its status is still pending and its timer is gone.
C31_Witness ==
    /\ ~mounted
    /\ fieldValidationStatus["issuer_name"] = "pending"
    /\ validationTimers["issuer_name"] = <<>>
    /\ requests = <<>>


----------------------------------------------------------------------------
(* Claims about validity and late answers (SpecFields) *)

\* C32: whenever formIsValid holds, the current value of every required field
\* passes its local validator: it is not blank, the invoice date is a
\* well-formed date and the registration number has exactly 13 digits.
C32_ValidFormIsLocallyValid ==
    formIsValid
       => /\ \A f \in RequiredFields : Trim(values[f]) # <<>>
          /\ DateRegexTest(values["invoiceDate"])
          /\ IsCalendarDate(values["invoiceDate"])
          /\ Len(DigitsOnly(values["sellerRegNo"])) = 13


\* C33: a field is marked valid only for its current value: the status becomes
\* valid through a 'pass' for a request that carried the current value, and a
\* field that is valid does not keep that status through an edit of its value.
C33_ValidMeansCurrentValue ==
    [][ \A b \in BackendFields :
           LET f == getUIFieldName(b)
           IN  /\ (fieldValidationStatus[b] # "valid" /\ fieldValidationStatus'[b] = "valid")
                     => \E k \in 1..Len(requests) :
                           /\ requests[k].field = b
                           /\ requests[k].value = WireValue(f, values'[f])
               /\ (fieldValidationStatus[b] = "valid" /\ fieldValidationStatus'[b] = "valid")
                     => values'[f] = values[f] ]_vars


\* C34: at most one submission is in flight.  While isSubmitting or
\* isGeneratingPdf is set no step starts a submission or issues a second
\* /manual-invoice/validate request, and the one /manual-invoice/generate
\* request of the attempt is issued by the step that receives the validate
\* answer; a call is awaited only while isSubmitting is set, and the artifact
\* request only while isGeneratingPdf is set.
C34_OneSubmissionInFlight ==
    /\ [] /\ pending.pc # "idle" => isSubmitting
          /\ isGeneratingPdf <=> pending.pc = "generate"
          /\ attempt.validateCalls <= 1
          /\ attempt.generateCalls <= 1
    /\ [][ /\ (isSubmitting \/ isGeneratingPdf)
              => /\ submits' = submits
                 /\ attempt'.clicked = attempt.clicked
                 /\ attempt'.validateCalls = attempt.validateCalls
                 /\ attempt'.validateBody = attempt.validateBody
           /\ attempt'.generateCalls > attempt.generateCalls
              => /\ pending.pc = "validate"
                 /\ attempt.generateCalls = 0
                 /\ attempt'.generateCalls = 1
                 /\ submits' = submits ]_vars

\* C34 witness: a second attempt awaits the artifact while the form is still
\* valid, so only the busy flags keep the button from starting a third.
C34_Witness ==
    /\ submits = 2
    /\ pending.pc = "generate"
    /\ isSubmitting /\ isGeneratingPdf
    /\ formIsValid
    /\ ~SubmitEnabled
    /\ attempt.validateCalls = 1 /\ attempt.generateCalls = 1


\* C35: on a form that stays mounted, whose armed timers run and whose
\* requests are all answered or fail, a remote status of pending or
\* validating leads to a status of valid or invalid: no field waits forever.
C35_PendingSettles ==
    \A b \in BackendFields :
        (fieldValidationStatus[b] \in {"pending", "validating"})
            ~> (fieldValidationStatus[b] \in {"valid", "invalid"})

\* C35 witness: the request of a field that was left failed on the network,
\* and the field went from waiting to invalid.
C35_Witness ==
    \E b \in BackendFields :
        /\ lastWrite[b].by = "response"
        /\ lastWrite[b].resp.kind = "neterr"
        /\ fieldValidationStatus[b] = "invalid"
        /\ validationTimers[b] = <<>>
        /\ ~InFlight(b)


\* C36: when both remote calls eventually return or fail, a submission that
\* was started (a call is awaited, or a busy flag is set) leads to a state
\* where nothing is awaited and isSubmitting and isGeneratingPdf are both
\* false, whatever the answers were.
C36_SubmissionEnds ==
    (pending.pc # "idle" \/ isSubmitting \/ isGeneratingPdf)
        ~> (pending = Idle /\ ~isSubmitting /\ ~isGeneratingPdf)

\* C36 witness: an attempt whose artifact call failed on the network has
\* ended with both flags released.
C36_Witness ==
    /\ submits >= 1
    /\ attempt.generateCalls = 1
    /\ attempt.presp.kind = "neterr"
    /\ pending = Idle
    /\ ~isSubmitting /\ ~isGeneratingPdf


----------------------------------------------------------------------------
(* Claims about the bulk lookup page (SpecBulkPage) *)

\* C37: a drop or a selection that hands the page's dropzone a valid CSV file
\* starts a lookup for that file: loading is set, lookupCsv is called with it
\* and no file error is left, whatever the selection before it was.
C37_ValidCsvStartsLookup ==
    [][ ( /\ fileEvents' = fileEvents + 1
          /\ handled'.given
          /\ validateFile(handled'.file) = <<>> )
        => /\ page'.loading
           /\ Len(page'.lookups) = Len(page.lookups) + 1
           /\ page'.lookups[Len(page'.lookups)] = handled'.file
           /\ page'.fileError = <<>> ]_vars


----------------------------------------------------------------------------
(* Claims about the legacy invoice form (SpecLegacy) *)

\* C38: every native submission of the legacy form follows a validateFullForm
\* pass that reported no errors (no required field missing, no required
\* field's remote check failed or threw); and a submit attempt made while a
\* pass or its 2-second delay is in progress changes nothing.
C38_SubmitOnlyAfterCleanPass ==
    /\ [](\A i \in 1..Len(legacy.native) :
            /\ legacy.native[i].validation.done
            /\ ~legacy.native[i].validation.hasErrors)
    /\ [][ (legacy.pc # "idle" /\ legacy'.pc = legacy.pc /\ legacy'.form = legacy.form)
           => legacy' = [legacy EXCEPT !.events = legacy'.events] ]_vars


----------------------------------------------------------------------------
(* Claims about the consistency of the totals (SpecTotals) *)

\* C39: in every state the three totals of the memo, in cents, add up: the
\* rounded grandTotal is the rounded subtotal plus the rounded taxTotal.
C39_RoundedTotalsAddUp ==
    totals.value.grandTotal = totals.value.subtotal + totals.value.taxTotal

=============================================================================
